---- MODULE Spec2Model ----
(***************************************************************************)
(* The payment-gated order pipeline of the PBC x402 API:                   *)
(*   calculateOrderTotal   (src/src/routes/order.ts 43-70)                 *)
(*   verifyPaymentHeader   (src/src/routes/order.ts 100-198)               *)
(*   POST /order           (src/src/routes/order.ts 211-356)               *)
(*   createPayToAddress    (src/src/lib/stripe.ts 41-105)                  *)
(*   getPaymentIntentStatus, getStripe   (src/src/lib/stripe.ts 110-129)   *)
(*   GET /menu/...         (src/src/routes/menu.ts 11-104)                 *)
(*                                                                         *)
(* Money is counted in cents: a JavaScript number with two decimals d.cc   *)
(* is the integer 100*d + cc; the sums and products that lead to it are    *)
(* worked out as operations on doubles.  Strings that the code inspects    *)
(* character by character (addresses, order ids, amounts) are sequences of *)
(* one-character strings.  An optional value is a sequence of length 0 or  *)
(* 1.                                                                      *)
(***************************************************************************)
EXTENDS Integers, Sequences, FiniteSets, TLC

VARIABLES
    demoMode,      \* DEMO_MODE, fixed when the process starts
    stripeClient,  \* TRUE once getStripeClient() has built the client
    clock,         \* Date.now(), in milliseconds
    pc,            \* per request slot: where its handler stands
    req,           \* per request slot: the request being handled
    verification,  \* per request slot: result of verifyPaymentHeader, if called,
                   \* and the Date.now() it read
    backend,       \* per request slot: the calls of paymentIntents.create, each
                   \* with the amount sent and how the call ended
    reached,       \* per request slot: the handler stages entered so far
    arrival,       \* per request slot: whether the request arrived while
                   \* another was waiting on its backend call
    resp,          \* per request slot: the response sent, if any
    vin,           \* input of a stand-alone verifyPaymentHeader call
    vout,          \* its result, once applied
    fin,           \* input of a stand-alone call of another function or route
    fout,          \* its result, once applied
    exported       \* the stand-alone calls of getStripe and
                   \* getPaymentIntentStatus, each with how it stands

vars == <<demoMode, stripeClient, clock, pc, req, verification, backend,
          reached, arrival, resp, vin, vout, fin, fout, exported>>

(***************************************************************************)
(* Bounds of the model.                                                    *)
(***************************************************************************)
MaxTicks == 2

(***************************************************************************)
(* Small helpers.                                                          *)
(***************************************************************************)
Min(S) == CHOOSE x \in S : \A y \in S : x <= y

Abs(x) == IF x < 0 THEN -x ELSE x

\* Math.round on the exact quotient n/d (d > 0): the nearest integer, a half
\* going up.
MathRound(n, d) == (2 * n + d) \div (2 * d)

RECURSIVE Repeat(_, _)
Repeat(c, n) == IF n = 0 THEN <<>> ELSE <<c>> \o Repeat(c, n - 1)

\* String.prototype.startsWith on character sequences.
StartsWith(s, p) == Len(s) >= Len(p) /\ SubSeq(s, 1, Len(p)) = p

(***************************************************************************)
(* The catalog, data/menu.json.  The file is not among the sources: the    *)
(* item prices and the tax rate follow the specification's scenario        *)
(* (brisket + chips = 12.50, rate 0.0875), with a free item for the        *)
(* price-zero case.  A price is held as the cents of its decimal literal,  *)
(* the rate as the fraction TaxRateNum / TaxRateDen its literal denotes.   *)
(***************************************************************************)
TaxRateNum == 875
TaxRateDen == 10000

allItems ==
    << [id |-> "brisket", name |-> "Brisket Sandwich", price |-> 1000],
       [id |-> "chips",   name |-> "Chips",            price |-> 250],
       [id |-> "water",   name |-> "Tap Water",        price |-> 0] >>

(***************************************************************************)
(* calculateOrderTotal: the items found (lines 44-57).                     *)
(***************************************************************************)
\* allItems.find((i) => i.id === id): the first match, as an optional value.
FindItem(id) ==
    LET hits == {i \in 1..Len(allItems) : allItems[i].id = id}
    IN  IF hits = {} THEN <<>> ELSE <<allItems[Min(hits)]>>

\* FoundItems with an id priced only the first time it is met.
RECURSIVE FoundItemsOnce(_)
FoundItemsOnce(itemIds) ==
    IF itemIds = <<>> THEN <<>>
    ELSE LET before == FoundItemsOnce(SubSeq(itemIds, 1, Len(itemIds) - 1))
             last == itemIds[Len(itemIds)]
         IN  IF \E i \in 1..Len(before) : before[i].id = last THEN before
             ELSE before \o FindItem(last)

RECURSIVE FoundItems(_)
FoundItems(itemIds) ==
    IF itemIds = <<>> THEN <<>>
    ELSE FindItem(Head(itemIds)) \o FoundItems(Tail(itemIds))

(***************************************************************************)
(* JavaScript numbers.  Every number of calculateOrderTotal is an IEEE 754  *)
(* double.  A double x >= 0 is held as the natural number x * 2^FracBits,   *)
(* which is exact for the amounts of money met here (zero, or at least      *)
(* 2^-19, and below 2^53).  Naturals beyond 31 bits are sequences of limbs  *)
(* in 0..LimbBase-1, lowest limb first, without high zero limbs.            *)
(***************************************************************************)
RECURSIVE Pow2(_)
Pow2(n) == IF n = 0 THEN 1 ELSE 2 * Pow2(n - 1)

LimbBits == 12
LimbBase == Pow2(LimbBits)
FracLimbs == 6
FracBits == FracLimbs * LimbBits
SignificandBits == 53

RECURSIVE BigNorm(_)
BigNorm(a) ==
    IF a = <<>> THEN <<>>
    ELSE IF a[Len(a)] = 0 THEN BigNorm(SubSeq(a, 1, Len(a) - 1))
    ELSE a

RECURSIVE BigOfInt(_)
BigOfInt(n) ==
    IF n = 0 THEN <<>> ELSE <<n % LimbBase>> \o BigOfInt(n \div LimbBase)

RECURSIVE BigToInt(_)
BigToInt(a) ==
    IF a = <<>> THEN 0 ELSE a[1] + LimbBase * BigToInt(Tail(a))

\* A run of limbs this long or shorter is worked limb by limb; a longer
\* run is worked by halves.  The results do not depend on the length.
LimbRun == 8

\* The limbs lo+1..hi of a + b for the carry into them, followed by the
\* carry out of them.  A long run is its low half, then its high half with
\* the carry the low half gave.
RECURSIVE BigAddCarry(_, _, _, _, _)
BigAddCarry(a, b, lo, hi, carry) ==
    IF hi = lo THEN <<carry>>
    ELSE IF hi - lo <= LimbRun
    THEN LET x == (IF lo < Len(a) THEN a[lo + 1] ELSE 0)
                  + (IF lo < Len(b) THEN b[lo + 1] ELSE 0) + carry
         IN  <<x % LimbBase>> \o BigAddCarry(a, b, lo + 1, hi, x \div LimbBase)
    ELSE CHOOSE limbs \in
             { SubSeq(low, 1, Len(low) - 1)
                   \o BigAddCarry(a, b, (lo + hi) \div 2, hi, low[Len(low)]) :
                 low \in {BigAddCarry(a, b, lo, (lo + hi) \div 2, carry)} } : TRUE

BigAdd(a, b) ==
    BigNorm(BigAddCarry(a, b, 0, IF Len(a) > Len(b) THEN Len(a) ELSE Len(b), 0))

\* a * k for a small k (k * LimbBase below 2^31): the limbs lo+1..hi of the
\* product for the carry into them, followed by the carry out of them (the
\* carry of the highest limbs may take more than one limb).
RECURSIVE BigMulSmallCarry(_, _, _, _, _)
BigMulSmallCarry(a, k, lo, hi, carry) ==
    IF hi = lo THEN <<carry>>
    ELSE IF hi - lo <= LimbRun
    THEN LET x == a[lo + 1] * k + carry
         IN  <<x % LimbBase>> \o BigMulSmallCarry(a, k, lo + 1, hi, x \div LimbBase)
    ELSE CHOOSE limbs \in
             { SubSeq(low, 1, Len(low) - 1)
                   \o BigMulSmallCarry(a, k, (lo + hi) \div 2, hi, low[Len(low)]) :
                 low \in {BigMulSmallCarry(a, k, lo, (lo + hi) \div 2, carry)} } : TRUE

BigMulSmall(a, k) ==
    LET limbs == BigMulSmallCarry(a, k, 0, Len(a), 0)
    IN  BigNorm(SubSeq(limbs, 1, Len(a)) \o BigOfInt(limbs[Len(a) + 1]))

\* a * LimbBase^n.
BigShiftLimbs(a, n) ==
    IF a = <<>> \/ n = 0 THEN a ELSE [i \in 1..n |-> 0] \o a

RECURSIVE BigMul(_, _)
BigMul(a, b) ==
    IF b = <<>> THEN <<>>
    ELSE BigAdd(BigMulSmall(a, b[1]), BigShiftLimbs(BigMul(a, Tail(b)), 1))

\* Long division by a small d (d * LimbBase below 2^31) of the limbs
\* lo+1..hi of a, from the highest down, with the remainder `carry` of the
\* limbs above them: the remainder, followed by a quotient limb for each
\* limb.  A long run is its high half, then its low half with the
\* remainder the high half left.
RECURSIVE BigDivLimbs(_, _, _, _, _)
BigDivLimbs(a, d, lo, hi, carry) ==
    IF hi = lo THEN <<carry>>
    ELSE IF hi - lo <= LimbRun
    THEN LET x == carry * LimbBase + a[hi]
         IN  BigDivLimbs(a, d, lo, hi - 1, x % d) \o <<x \div d>>
    ELSE CHOOSE limbs \in
             { BigDivLimbs(a, d, lo, (lo + hi) \div 2, high[1]) \o Tail(high) :
                 high \in {BigDivLimbs(a, d, (lo + hi) \div 2, hi, carry)} } : TRUE

\* Quotient and remainder of a by a small d (d * LimbBase below 2^31).
BigDivSmall(a, d) ==
    LET limbs == BigDivLimbs(a, d, 0, Len(a), 0)
    IN  [q |-> BigNorm(Tail(limbs)), r |-> limbs[1]]

\* a * 2^s and the floor of a / 2^s.
BigShiftLeft(a, s) ==
    BigShiftLimbs(BigMulSmall(a, Pow2(s % LimbBits)), s \div LimbBits)

BigShiftRight(a, s) ==
    LET n == s \div LimbBits
    IN  IF Len(a) <= n THEN <<>>
        ELSE BigDivSmall(SubSeq(a, n + 1, Len(a)), Pow2(s % LimbBits)).q

RECURSIVE SmallBitLength(_)
SmallBitLength(n) == IF n = 0 THEN 0 ELSE 1 + SmallBitLength(n \div 2)

BigBitLength(a) ==
    IF a = <<>> THEN 0
    ELSE LimbBits * (Len(a) - 1) + SmallBitLength(a[Len(a)])

\* The nearest natural with at most SignificandBits significant bits, a tie
\* going to the even significand: the rounding of every double operation.
\* s is the number of bits to drop, twice is a without its last s - 1 bits
\* and q is a without its last s bits.
RoundUp(a, s, twice, q) ==
    /\ twice[1] % 2 = 1
    /\ (BigShiftLeft(twice, s - 1) # a \/ q[1] % 2 = 1)

RoundDropping(a, s, twice, q) ==
    BigShiftLeft(IF RoundUp(a, s, twice, q) THEN BigAdd(q, <<1>>) ELSE q, s)

RoundBits(a, s) ==
    IF s <= 0 THEN a
    ELSE RoundDropping(a, s, BigShiftRight(a, s - 1), BigShiftRight(a, s))

RoundToSignificand(a) == RoundBits(a, BigBitLength(a) - SignificandBits)

\* The double of an integer below 2^31.
DoubleOfInt(n) == BigShiftLimbs(BigOfInt(n), FracLimbs)

\* The double a decimal literal num/den denotes (den a power of ten): the
\* quotient is taken with one limb and one bit more, the last bit telling
\* whether the division left a remainder.
WithStickyBit(d) == BigAdd(BigMulSmall(d.q, 2), IF d.r # 0 THEN <<1>> ELSE <<>>)

DoubleOfDecimal(num, den) ==
    BigShiftRight(
        RoundToSignificand(
            WithStickyBit(BigDivSmall(BigShiftLimbs(BigOfInt(num), FracLimbs + 1), den))),
        LimbBits + 1)

DoubleAdd(x, y) == RoundToSignificand(BigAdd(x, y))

WithoutFraction(p) ==
    IF Len(p) <= FracLimbs THEN <<>> ELSE SubSeq(p, FracLimbs + 1, Len(p))

DoubleMul(x, y) == WithoutFraction(RoundToSignificand(BigMul(x, y)))

\* Math.round: the floor of x + 1/2, taken exactly.
DoubleRound(x) ==
    BigToInt(BigShiftRight(BigAdd(x, BigShiftLeft(<<1>>, FracBits - 1)), FracBits))

(***************************************************************************)
(* calculateOrderTotal, for the catalog above and for any catalog.  A      *)
(* catalog holds its items, the price of each as the cents of its decimal  *)
(* literal, and the tax rate as the fraction rateNum / rateDen its literal *)
(* denotes.  The returned subtotal, tax and total are n / 100 for the      *)
(* integer n that Math.round gave; they are held as n.                     *)
(***************************************************************************)
MenuData(items, rateNum, rateDen) ==
    [items |-> items, rateNum |-> rateNum, rateDen |-> rateDen]

FindItemIn(items, id) ==
    LET hits == {i \in 1..Len(items) : items[i].id = id}
    IN  IF hits = {} THEN <<>> ELSE <<items[Min(hits)]>>

RECURSIVE FoundItemsIn(_, _)
FoundItemsIn(items, itemIds) ==
    IF itemIds = <<>> THEN <<>>
    ELSE FindItemIn(items, Head(itemIds)) \o FoundItemsIn(items, Tail(itemIds))

\* foundItems.reduce((sum, item) => sum + item.price, 0), line 59: the
\* callback is applied to the accumulator and the next item, from the left.
\* ReducePrices gives the accumulator after the items lo+1..hi, started from
\* `sum`; a longer run is its first half, then its second half started from
\* what the first half gave, which is the same left-to-right chain of sums.
RECURSIVE ReducePrices(_, _, _, _)
ReducePrices(items, lo, hi, sum) ==
    IF hi = lo THEN sum
    ELSE IF hi = lo + 1 THEN DoubleAdd(sum, DoubleOfDecimal(items[hi].price, 100))
    ELSE CHOOSE total \in
             { ReducePrices(items, mid, hi, half) :
                 mid \in {(lo + hi) \div 2},
                 half \in {ReducePrices(items, lo, (lo + hi) \div 2, sum)} } : TRUE

SumPricesDouble(items) == ReducePrices(items, 0, Len(items), DoubleOfInt(0))

\* Math.round(x * 100), lines 65-68; the number returned is this over 100.
Hundredfold(x) == DoubleRound(DoubleMul(x, DoubleOfInt(100)))

\* Lines 63-69: the record returned, for the doubles subtotal, tax and total.
OrderRecord(foundItems, subtotal, tax, total) ==
    [ items        |-> foundItems,
      subtotal     |-> Hundredfold(subtotal),
      tax          |-> Hundredfold(tax),
      total        |-> Hundredfold(total),
      totalInCents |-> Hundredfold(total) ]

\* Lines 60-61: the tax is the double product of the subtotal and the rate's
\* double, the total the double sum of the subtotal and the tax.
OrderTaxed(foundItems, subtotal, tax) ==
    OrderRecord(foundItems, subtotal, tax, DoubleAdd(subtotal, tax))

OrderSummed(foundItems, subtotal, rate) ==
    OrderTaxed(foundItems, subtotal, DoubleMul(subtotal, rate))

\* Lines 59-69: the sums, every operation rounded as a double operation is.
OrderSummary(foundItems, rateNum, rateDen) ==
    OrderSummed(foundItems, SumPricesDouble(foundItems),
                DoubleOfDecimal(rateNum, rateDen))

\* Lines 43-70 for a catalog given as menuData.
calculateOrderTotalDouble(menuData, itemIds) ==
    OrderSummary(FoundItemsIn(menuData.items, itemIds),
                 menuData.rateNum, menuData.rateDen)

\* The id sequences the model prices: those of at most MaxIds ids, known
\* and unknown, and an order of nine brisket, whose subtotal of 90.00 has a
\* tax just below 7.875.
MaxIds == 3

IdSamples == {"brisket", "chips", "water", "not-a-real-id"}

RECURSIVE IdSequences(_)
IdSequences(n) ==
    IF n = 0 THEN {<<>>}
    ELSE LET shorter == IdSequences(n - 1)
         IN  shorter \cup {Append(s, id) : s \in shorter, id \in IdSamples}

NineBrisket == Repeat("brisket", 9)

\* What lines 43-70 give for these sequences is kept in a table, so that it
\* is worked out once.
OrderTotalOfSample ==
    [ s \in IdSequences(MaxIds) \cup {NineBrisket} |->
        OrderSummary(FoundItems(s), TaxRateNum, TaxRateDen) ]

\* Lines 43-70.  subtotal, tax and total are the returned two-decimal
\* numbers, in cents.
calculateOrderTotal(itemIds) ==
    IF itemIds \in DOMAIN OrderTotalOfSample THEN OrderTotalOfSample[itemIds]
    ELSE OrderSummary(FoundItems(itemIds), TaxRateNum, TaxRateDen)

(***************************************************************************)
(* JavaScript values met in a decoded payment proof.  A field is absent,   *)
(* a number or a string; a string carries its characters.                  *)
(***************************************************************************)
Absent == [t |-> "absent", s |-> <<>>]
NumberVal == [t |-> "number", s |-> <<>>]          \* some non-zero number
Str(chars) == [t |-> "string", s |-> chars]

\* Truthiness (!x is its negation): absent and "" are falsy.
Truthy(v) == v.t = "number" \/ (v.t = "string" /\ v.s # <<>>)

HexDigits == {"0", "1", "2", "3", "4", "5", "6", "7", "8", "9",
              "a", "b", "c", "d", "e", "f", "A", "B", "C", "D", "E", "F"}

\* An account address has 20 bytes, two hexadecimal digits each.
AddrHexLen == 2 * 20

AddrPrefix == <<"0", "x">>
AddrA == Str(AddrPrefix \o Repeat("A", AddrHexLen))
AddrB == Str(AddrPrefix \o Repeat("B", AddrHexLen))
AddrEmpty == Str(<<>>)
AddrNoPrefix == Str(Repeat("A", AddrHexLen))
AddrShort == Str(AddrPrefix \o <<"A", "A", "A">>)
AddrNonHex == Str(AddrPrefix \o Repeat("Z", AddrHexLen))

\* authorization.value: absent, a JSON number or a JSON string.  text holds
\* the characters of the string, and for a number those that toString()
\* gives (line 148).  A character is a one-character string; one that a
\* string of this module cannot hold is named by its code point ("U+2028").
NoValue == [t |-> "absent", text |-> <<>>]
StringValue(text) == [t |-> "string", text |-> text]
NumberValue(text) == [t |-> "number", text |-> text]

\* The characters of a string of the module.
Chars(s) == [i \in 1..Len(s) |-> SubSeq(s, i, i)]

IntString(n) == StringValue(Chars(ToString(n)))

\* The characters lo+1..hi written one after the other, as in a message:
\* a longer run is its first half followed by its second.
RECURSIVE TextOf(_, _, _)
TextOf(chars, lo, hi) ==
    IF hi = lo THEN ""
    ELSE IF hi = lo + 1 THEN chars[hi]
    ELSE TextOf(chars, lo, (lo + hi) \div 2) \o TextOf(chars, (lo + hi) \div 2, hi)

\* if (auth.value), line 147: "" is falsy, and so are the numbers 0 and -0,
\* both of which print as "0".
ValueTruthy(v) ==
    \/ v.t = "string" /\ v.text # <<>>
    \/ v.t = "number" /\ v.text # <<"0">>

\* The digits and what they stand for, in either case.
DigitOf ==
    LET lower == << "0", "1", "2", "3", "4", "5", "6", "7", "8", "9",
                    "a", "b", "c", "d", "e", "f" >>
        upper == << "0", "1", "2", "3", "4", "5", "6", "7", "8", "9",
                    "A", "B", "C", "D", "E", "F" >>
    IN  [c \in {lower[i] : i \in 1..16} \cup {upper[i] : i \in 1..16} |->
            CHOOSE n \in 0..15 : lower[n + 1] = c \/ upper[n + 1] = c]

\* StrWhiteSpaceChar of ECMAScript: the white space (tab, vertical tab, form
\* feed, the zero-width no-break space and the space separators of Unicode)
\* and the line terminators.
StrWhiteSpaceChar ==
    { "\t", "U+000B", "\f", "U+FEFF",
      " ", "U+00A0", "U+1680", "U+2000", "U+2001", "U+2002", "U+2003",
      "U+2004", "U+2005", "U+2006", "U+2007", "U+2008", "U+2009", "U+200A",
      "U+202F", "U+205F", "U+3000",
      "\n", "\r", "U+2028", "U+2029" }

\* The text without the white space at its two ends.
Trim(s) ==
    LET kept == {i \in 1..Len(s) : s[i] \notin StrWhiteSpaceChar}
    IN  IF kept = {} THEN <<>>
        ELSE SubSeq(s, Min(kept), CHOOSE i \in kept : \A k \in kept : k <= i)

\* The value of the digit c in the base, <<>> when it is no digit of it.
DigitValue(c, base) ==
    IF c \in DOMAIN DigitOf /\ DigitOf[c] < base THEN <<DigitOf[c]>> ELSE <<>>

\* The natural number that the digits read so far, worth n, and the
\* characters lo+1..hi of s, all digits, stand for, in limbs: a BigInt has
\* no largest value.  A longer run is read as its first half, then its
\* second half after what the first half gave.
RECURSIVE ParseDigits(_, _, _, _, _)
ParseDigits(s, base, lo, hi, n) ==
    IF hi = lo THEN n
    ELSE IF hi = lo + 1
    THEN BigAdd(BigMulSmall(n, base), BigOfInt(DigitValue(s[hi], base)[1]))
    ELSE CHOOSE m \in
             { ParseDigits(s, base, mid, hi, half) :
                 mid \in {(lo + hi) \div 2},
                 half \in {ParseDigits(s, base, lo, (lo + hi) \div 2, n)} } : TRUE

ParseLiteral(s, base) ==
    IF s = <<>> \/ \E i \in 1..Len(s) : DigitValue(s[i], base) = <<>>
    THEN <<>>
    ELSE <<ParseDigits(s, base, 0, Len(s), <<>>)>>

\* An integer of any size, a BigInt or an integer-valued double: its sign
\* and its magnitude in limbs.  Zero has no sign (-0n is 0n).
Integer(negative, magnitude) ==
    [negative |-> negative /\ magnitude # <<>>, magnitude |-> magnitude]

\* BigInt(valueStr), line 151: StringToBigInt of ECMAScript.  White space
\* around the literal is dropped; what is left is empty (0n), a hexadecimal,
\* octal or binary literal without sign, or decimal digits with an optional
\* sign.  The result is <<n>>, or <<>> where BigInt throws a SyntaxError.
StringToBigInt(valueStr) ==
    LET s == Trim(valueStr)
        prefix == IF Len(s) >= 2 THEN SubSeq(s, 1, 2) ELSE <<>>
        rest == SubSeq(s, 3, Len(s))
        unsigned == SubSeq(s, 2, Len(s))
        literal ==
            IF s = <<>> THEN << <<>> >>
            ELSE IF prefix \in {<<"0", "x">>, <<"0", "X">>} THEN ParseLiteral(rest, 16)
            ELSE IF prefix \in {<<"0", "o">>, <<"0", "O">>} THEN ParseLiteral(rest, 8)
            ELSE IF prefix \in {<<"0", "b">>, <<"0", "B">>} THEN ParseLiteral(rest, 2)
            ELSE IF s[1] \in {"+", "-"} THEN ParseLiteral(unsigned, 10)
            ELSE ParseLiteral(s, 10)
    IN  IF literal = <<>> THEN <<>>
        ELSE <<Integer(s # <<>> /\ s[1] = "-", literal[1])>>

\* A unit of the asset is a millionth of a dollar: 10000 to the cent (152).
UsdcUnitsPerCent == 10000

\* usdcUnits / BigInt(10000), line 152: the quotient of two BigInts drops
\* the fraction (d * LimbBase is below 2^31).
BigIntDivide(x, d) == Integer(x.negative, BigDivSmall(x.magnitude, d).q)

\* Number(bigint), line 152: the double nearest the integer, a tie going to
\* the even significand.  It is the integer itself up to 2^53, and Infinity
\* or -Infinity (infinite, without a magnitude) where the rounded magnitude
\* is 2^1024 or more: the largest double is 2^1024 - 2^971, of 1024 bits.
Number(x) ==
    CHOOSE n \in { IF BigBitLength(rounded) > 1024
                   THEN [negative |-> x.negative, magnitude |-> <<>>, infinite |-> TRUE]
                   ELSE [negative |-> x.negative, magnitude |-> rounded, infinite |-> FALSE] :
                   rounded \in {RoundToSignificand(x.magnitude)} } : TRUE

\* The values the model's proofs state.
AmountSamples ==
    { 0, 5 * UsdcUnitsPerCent, 1358 * UsdcUnitsPerCent - 1,
      1358 * UsdcUnitsPerCent, 1359 * UsdcUnitsPerCent,
      1360 * UsdcUnitsPerCent - 1, 1360 * UsdcUnitsPerCent,
      1361 * UsdcUnitsPerCent }

\* 10000 * (2^53 + 1): the units of the first whole number of cents that no
\* double holds, 9007199254740993.
LargeUnits == "90071992547409930000"

\* 10^313 units, 10^309 cents: beyond every double.
HugeUnits == [i \in 1..314 |-> IF i = 1 THEN "1" ELSE "0"]

\* Values BigInt reads: decimal digits as a string or a number, a
\* hexadecimal literal, digits with white space around them, and an amount
\* whose cents are beyond 2^53.
IntegerValues ==
    {IntString(n) : n \in AmountSamples}
    \cup {NumberValue(Chars(ToString(n))) : n \in AmountSamples}
    \cup { StringValue(Chars("0x2710")), StringValue(Chars(" 13590000 ")),
           StringValue(Chars(LargeUnits)), StringValue(HugeUnits),
           StringValue(<<"\f">> \o Chars("13590000")),
           StringValue(<<"U+FEFF">> \o Chars("13590000") \o <<"U+00A0", "U+2028">>) }

\* And the others: none, the empty string and strings of white space only
\* (BigInt reads 0 in these), a negative amount, and texts BigInt throws on.
ValueSamples ==
    IntegerValues
    \cup { NoValue, StringValue(<<>>), StringValue(Chars("   ")),
           StringValue(<<"\f">>), StringValue(Chars("-13590001")),
           StringValue(<<"-">> \o HugeUnits),
           StringValue(Chars("13.59")), StringValue(Chars("abc")),
           StringValue(Chars("1359") \o <<"\f">> \o Chars("0000")),
           NumberValue(Chars("13.59")), NumberValue(Chars("1e+21")) }

\* BigInt(valueStr).  What StringToBigInt gives for the texts of the samples
\* is kept in a table, so that it is worked out once.
BigIntOfSample == [s \in {v.text : v \in ValueSamples} |-> StringToBigInt(s)]

BigInt(valueStr) ==
    IF valueStr \in DOMAIN BigIntOfSample THEN BigIntOfSample[valueStr]
    ELSE StringToBigInt(valueStr)

\* Number(usdcUnits / BigInt(10000)), line 152, for a value text BigInt
\* reads.  What it gives for the texts of the samples is kept in a table
\* as well.
AmountCentsOfSample ==
    [ s \in {t \in DOMAIN BigIntOfSample : BigIntOfSample[t] # <<>>} |->
        Number(BigIntDivide(BigIntOfSample[s][1], UsdcUnitsPerCent)) ]

AmountCents(valueStr) ==
    IF valueStr \in DOMAIN AmountCentsOfSample THEN AmountCentsOfSample[valueStr]
    ELSE Number(BigIntDivide(BigInt(valueStr)[1], UsdcUnitsPerCent))

\* validAfter / validBefore: absent or a number of seconds.
NoTime == [t |-> "absent", n |-> 0]
Seconds(n) == [t |-> "number", n |-> n]
TimeTruthy(v) == v.t = "number" /\ v.n # 0

(***************************************************************************)
(* The X-PAYMENT header.  Its characters are digits of the base64          *)
(* alphabet, which encode text; characters that Node's decoder skips       *)
(* (such as "!", "*", a blank: outside the standard and the URL-safe       *)
(* alphabet, and not "="), counted by illegal; and possibly a stray        *)
(* character that the decoder does not skip, told by stray:                *)
(*   "padding-first"  "=" stands before the first digit;                   *)
(*   "after-padding"  the encoding of the text ends in "=" and a character *)
(*                    ("-", "_" or any other) stands after its first "=";  *)
(*   "url-safe"       "_" stands in the place of a digit: the one header  *)
(*                    UrlSafeHeader.                                       *)
(* A text says whether it is JSON (json "invalid": it is not, and          *)
(* parseError is the message of the SyntaxError JSON.parse throws for it), *)
(* and if it is, whether it is the value null or another value with the    *)
(* fields listed.  A request's header is optional: <<>> when the request   *)
(* carries none.                                                           *)
(***************************************************************************)
Proof(payload, signature, authorization, from, to, value, validAfter, validBefore) ==
    [ json |-> "value", parseError |-> "", payload |-> payload,
      signature |-> signature, authorization |-> authorization, from |-> from,
      to |-> to, value |-> value, validAfter |-> validAfter,
      validBefore |-> validBefore ]

EmptyProof == Proof("absent", Absent, "absent", Absent, Absent, NoValue, NoTime, NoTime)

\* The text "this is not JSON" and the empty text.  The messages are those
\* of the runtime the Dockerfile names.
NotJson ==
    [EmptyProof EXCEPT !.json = "invalid",
        !.parseError = "Unexpected token 'h', \"this is not JSON\" is not valid JSON"]
EmptyText ==
    [EmptyProof EXCEPT !.json = "invalid",
        !.parseError = "Unexpected end of JSON input"]
JsonNull == [EmptyProof EXCEPT !.json = "null"]

Header(illegal, text) ==
    [empty |-> FALSE, illegal |-> illegal, stray |-> "none", text |-> text]

\* A header with "=" in front of the encoding of the text, or with a
\* character after the first "=" of an encoding that ends in padding.
StrayHeader(stray, text) ==
    [empty |-> FALSE, illegal |-> 0, stray |-> stray, text |-> text]

\* The header sent with no characters: "" is falsy in JavaScript.
EmptyHeader == [empty |-> TRUE, illegal |-> 0, stray |-> "none", text |-> EmptyText]

\* Buffer.from(header, "base64").toString().  Node's decoder never throws.
\* It skips the characters counted by illegal and decodes the rest.  It
\* stops at "=": a header starting with it decodes to the empty text, and
\* what stands after the padding is never read.  It takes "-" and "_" for
\* the digits 62 and 63, so that the header with one of them is the
\* encoding of another text.  In UrlSafeHeader the digit replaced is the
\* first of the four that hold the "t" of the key "to": read as 63 it sets
\* the six high bits of that byte, which is then no UTF-8 and comes out of
\* toString() as U+FFFD.  The text is JSON still, and the authorization it
\* states has a key "\ufffdo" where the key "to" was.
Base64Decode(paymentHeader) ==
    IF paymentHeader.stray = "padding-first" THEN EmptyText
    ELSE IF paymentHeader.stray = "url-safe"
    THEN [paymentHeader.text EXCEPT !.to = Absent]
    ELSE paymentHeader.text

MsPerSecond == 1000
Tolerance == 1

ErrMissingPayload == "Missing payload in payment header"
ErrMissingAuthorization == "Missing authorization in payload"
ErrFrom == "Invalid or missing 'from' address"
ErrTo == "Invalid or missing 'to' address"
ErrSignature == "Missing signature in payment payload"
ErrNotYetValid == "Payment not yet valid (validAfter in future)"
ErrExpired == "Payment expired (validBefore in past)"
\* Line 196: `Failed to decode payment header: ${message}`, with the message
\* of the error caught: the SyntaxError of JSON.parse (112), the TypeError of
\* reading payload of null (117), the SyntaxError of BigInt (151).
DecodePrefix == "Failed to decode payment header: "
ErrDecodeJson(decoded) == DecodePrefix \o decoded.parseError
ErrDecodeNull == DecodePrefix \o "Cannot read properties of null (reading 'payload')"
ErrDecodeBigInt(valueStr) == DecodePrefix \o "Cannot convert " \o TextOf(valueStr, 0, Len(valueStr)) \o " to a BigInt"

Rejected(error) ==
    [ valid |-> FALSE, fromAddress |-> <<>>, toAddress |-> <<>>,
      amountCents |-> <<>>, error |-> error, warned |-> FALSE ]

Accepted(fromAddress, toAddress, amountCents, warned) ==
    [ valid |-> TRUE, fromAddress |-> <<fromAddress>>, toAddress |-> <<toAddress>>,
      amountCents |-> amountCents, error |-> "", warned |-> warned ]

\* Lines 163-170, 188-193: the time window, then success.  warned says that
\* the warning of line 157 was logged, which happens before the window is
\* looked at.
CheckWindow(auth, nowMs, amountCents, warned) ==
    LET now == nowMs \div MsPerSecond
    IN  IF TimeTruthy(auth.validAfter) /\ now < auth.validAfter.n
        THEN [Rejected(ErrNotYetValid) EXCEPT !.warned = warned]
        ELSE IF TimeTruthy(auth.validBefore) /\ now > auth.validBefore.n
        THEN [Rejected(ErrExpired) EXCEPT !.warned = warned]
        ELSE Accepted(auth.from.s, auth.to.s, amountCents, warned)

\* Math.abs(amountCents - expectedAmountCents) > tolerance, line 156.  The
\* expected amount is a natural below 2^31.  An infinity is infinitely far
\* from it.  The difference of two integers is an integer, and the double
\* it is rounded to is above 1 exactly when it is.  An amount of 2^31 or
\* more is above the expected amount, by more than 1 unless it is the
\* expected amount and 1; one of -2^31 or less is further below.
OutsideTolerance(amountCents, expectedAmountCents) ==
    IF amountCents.infinite THEN TRUE
    ELSE IF BigBitLength(amountCents.magnitude) > 31
    THEN \/ amountCents.negative
         \/ amountCents.magnitude # BigAdd(BigOfInt(expectedAmountCents), <<1>>)
    ELSE IF amountCents.negative
    THEN \/ BigToInt(amountCents.magnitude) > Tolerance
         \/ expectedAmountCents > Tolerance
         \/ BigToInt(amountCents.magnitude) + expectedAmountCents > Tolerance
    ELSE Abs(BigToInt(amountCents.magnitude) - expectedAmountCents) > Tolerance

\* Lines 156-161 as they would be with the mismatch rejected (the TODO at 158).
AmountCheckedStrict(auth, nowMs, amountCents, expectedAmountCents) ==
    IF OutsideTolerance(amountCents, expectedAmountCents)
    THEN Rejected("Payment amount does not match order total")
    ELSE CheckWindow(auth, nowMs, <<amountCents>>, FALSE)

\* Lines 152-161 once BigInt has read the value: the cents, and the warning.
AmountChecked(auth, nowMs, amountCents, expectedAmountCents) ==
    CheckWindow(auth, nowMs, <<amountCents>>,
                OutsideTolerance(amountCents, expectedAmountCents))

\* Lines 144-161: the amount.  BigInt(valueStr) throws on a text it cannot
\* read as an integer, and the catch at 194-197 turns that into a rejection.
\* amountCents is the constant of line 152.
CheckAmount(auth, expectedAmountCents, nowMs) ==
    IF ~ValueTruthy(auth.value)
    THEN CheckWindow(auth, nowMs, <<>>, FALSE)
    ELSE IF BigInt(auth.value.text) = <<>>
    THEN Rejected(ErrDecodeBigInt(auth.value.text))
    ELSE CHOOSE result \in
             { AmountChecked(auth, nowMs, amountCents, expectedAmountCents) :
                   amountCents \in {AmountCents(auth.value.text)} } : TRUE

\* Lines 127-142: the addresses and the signature.  The fields of an
\* authorization that is no object read as undefined.
CheckStructure(decoded, expectedAmountCents, nowMs) ==
    LET auth == IF decoded.authorization = "object" THEN decoded
                ELSE [decoded EXCEPT !.from = Absent, !.to = Absent,
                                     !.value = NoValue, !.validAfter = NoTime,
                                     !.validBefore = NoTime]
        fromAddress == auth.from
        toAddress == auth.to
    IN  IF ~Truthy(fromAddress) \/ fromAddress.t # "string"
           \/ ~StartsWith(fromAddress.s, AddrPrefix)
        THEN Rejected(ErrFrom)
        ELSE IF ~Truthy(toAddress) \/ toAddress.t # "string"
                \/ ~StartsWith(toAddress.s, AddrPrefix)
        THEN Rejected(ErrTo)
        ELSE IF ~Truthy(decoded.signature) \/ decoded.signature.t # "string"
        THEN Rejected(ErrSignature)
        ELSE CheckAmount(auth, expectedAmountCents, nowMs)

\* verifyPaymentHeader(paymentHeader, expectedAmountCents), with Date.now()
\* = nowMs.  Every exception is caught (lines 110, 194-197).
verifyPaymentHeader(paymentHeader, expectedAmountCents, nowMs) ==
    LET decoded == Base64Decode(paymentHeader)
    IN  IF decoded.json = "invalid" THEN Rejected(ErrDecodeJson(decoded))
        ELSE IF decoded.json = "null" THEN Rejected(ErrDecodeNull)
        ELSE IF decoded.payload = "absent" THEN Rejected(ErrMissingPayload)
        ELSE IF decoded.payload = "scalar" \/ decoded.authorization = "absent"
        THEN Rejected(ErrMissingAuthorization)
        ELSE CheckStructure(decoded, expectedAmountCents, nowMs)

(***************************************************************************)
(* createPayToAddress (src/src/lib/stripe.ts).                             *)
(***************************************************************************)
DEMO_DEPOSIT_ADDRESS ==
    << "0", "x", "D", "E", "M", "O", "_", "A", "D", "D", "R", "E", "S",
       "S", "_", "S", "E", "T", "_", "S", "T", "R", "I", "P", "E", "_",
       "S", "E", "C", "R", "E", "T", "_", "K", "E", "Y", "_", "F", "O",
       "R", "_", "R", "E", "A", "L", "_", "P", "A", "Y", "M", "E", "N",
       "T", "S" >>

DefaultAmountInCents == 2000

\* PayToDecision with the demo-mode test placed before the look at the
\* payment header.
PayToDecisionDemoFirst(paymentHeader, amountInCents, demo) ==
    LET decoded == Base64Decode(paymentHeader[1])
        usable ==
            /\ paymentHeader # <<>>
            /\ ~paymentHeader[1].empty
            /\ decoded.json = "value"
            /\ decoded.payload = "object"
            /\ decoded.authorization = "object"
            /\ Truthy(decoded.to) /\ decoded.to.t = "string"
        amount ==
            IF amountInCents # <<>> /\ amountInCents[1] # 0
            THEN amountInCents[1] ELSE DefaultAmountInCents
    IN  IF demo THEN [call |-> FALSE, address |-> DEMO_DEPOSIT_ADDRESS, amount |-> 0]
        ELSE IF usable THEN [call |-> FALSE, address |-> decoded.to.s, amount |-> 0]
        ELSE [call |-> TRUE, address |-> <<>>, amount |-> amount]

\* PayToDecision without the demo-mode branch of lines 58-62.
PayToDecisionNoDemo(paymentHeader, amountInCents, demo) ==
    LET decoded == Base64Decode(paymentHeader[1])
        usable ==
            /\ paymentHeader # <<>>
            /\ ~paymentHeader[1].empty
            /\ decoded.json = "value"
            /\ decoded.payload = "object"
            /\ decoded.authorization = "object"
            /\ Truthy(decoded.to) /\ decoded.to.t = "string"
        amount ==
            IF amountInCents # <<>> /\ amountInCents[1] # 0
            THEN amountInCents[1] ELSE DefaultAmountInCents
    IN  IF usable THEN [call |-> FALSE, address |-> decoded.to.s, amount |-> 0]
        ELSE [call |-> TRUE, address |-> <<>>, amount |-> amount]

\* Lines 43-66, the part that runs before the backend is awaited.  The
\* context holds an optional paymentHeader and an optional amountInCents.
\* The result either returns an address at once or asks the backend for one.
PayToDecision(paymentHeader, amountInCents, demo) ==
    LET decoded == Base64Decode(paymentHeader[1])
        usable ==
            /\ paymentHeader # <<>>
            /\ ~paymentHeader[1].empty
            /\ decoded.json = "value"           \* otherwise the catch at 53
            /\ decoded.payload = "object"
            /\ decoded.authorization = "object"
            /\ Truthy(decoded.to) /\ decoded.to.t = "string"
        amount ==
            IF amountInCents # <<>> /\ amountInCents[1] # 0
            THEN amountInCents[1] ELSE DefaultAmountInCents
    IN  IF usable THEN [call |-> FALSE, address |-> decoded.to.s, amount |-> 0]
        ELSE IF demo THEN [call |-> FALSE, address |-> DEMO_DEPOSIT_ADDRESS, amount |-> 0]
        ELSE [call |-> TRUE, address |-> <<>>, amount |-> amount]

\* Lines 89-104: what the awaited paymentIntents.create yields.  The call
\* throws, or its answer holds no Base deposit address (line 92 throws), or
\* it holds one.
BackendOutcomes == {"address", "noaddress", "throws"}
DepositAddress == AddrB.s
ErrNoDepositAddress == "No Base deposit address in PaymentIntent response"
ErrBackend == "Stripe API error"

(***************************************************************************)
(* POST /order (src/src/routes/order.ts 211-356).                          *)
(***************************************************************************)
Response(status, error, details, requestedIds, challenge, order) ==
    [ status |-> status, error |-> error, details |-> details,
      requestedIds |-> requestedIds, challenge |-> challenge, order |-> order ]

ErrorResponse(status, error, details) ==
    Response(status, error, details, <<>>, <<>>, <<>>)

\* PaymentRequired with the preview's total taken before tax.
PaymentRequiredPreviewSubtotal(orderDetails, payToAddress) ==
    Response(402, "", "", <<>>,
             << [ scheme |-> "exact",
                  maxAmountRequired |->
                      [dollars |-> orderDetails.total \div 100,
                       cents   |-> orderDetails.total % 100],
                  payTo |-> payToAddress,
                  orderPreview |->
                      [ items    |-> orderDetails.items,
                        subtotal |-> orderDetails.subtotal,
                        tax      |-> orderDetails.tax,
                        total    |-> orderDetails.subtotal ] ] >>,
             <<>>)

\* Lines 255-280.  toFixed(2) of a two-decimal amount: dollars and cents.
PaymentRequired(orderDetails, payToAddress) ==
    Response(402, "", "", <<>>,
             << [ scheme |-> "exact",
                  maxAmountRequired |->
                      [dollars |-> orderDetails.total \div 100,
                       cents   |-> orderDetails.total % 100],
                  payTo |-> payToAddress,
                  orderPreview |->
                      [ items    |-> orderDetails.items,
                        subtotal |-> orderDetails.subtotal,
                        tax      |-> orderDetails.tax,
                        total    |-> orderDetails.total ] ] >>,
             <<>>)

\* Number.prototype.toString(36), upper-cased: the digits of n in base 36.
Digits36 ==
    << "0", "1", "2", "3", "4", "5", "6", "7", "8", "9", "A", "B", "C", "D",
       "E", "F", "G", "H", "I", "J", "K", "L", "M", "N", "O", "P", "Q", "R",
       "S", "T", "U", "V", "W", "X", "Y", "Z" >>

RECURSIVE ToString36(_)
ToString36(n) ==
    IF n < 36 THEN <<Digits36[n + 1]>>
    ELSE ToString36(n \div 36) \o <<Digits36[(n % 36) + 1]>>

\* Line 321: `PBC-${Date.now().toString(36).toUpperCase()}`.
OrderId(nowMs) == <<"P", "B", "C", "-">> \o ToString36(nowMs)

\* Lines 320-348 and 355.  The clock is read twice: Date.now() for the
\* orderId (321) and new Date() for createdAt (344), which is idMs or later.
Created(body, orderDetails, v, idMs, createdMs) ==
    Response(201, "", "", <<>>, <<>>,
             << [ orderId          |-> OrderId(idMs),
                  status           |-> "confirmed",
                  custName         |-> body.custName,
                  custPhone        |-> body.custPhone,
                  fulfillment      |-> body.fulfillment,
                  pickup_time      |-> body.pickup_time,
                  delivery_address |-> body.delivery_address,
                  delivery_window  |-> body.delivery_window,
                  items            |-> orderDetails.items,
                  subtotal         |-> orderDetails.subtotal,
                  tax              |-> orderDetails.tax,
                  total            |-> orderDetails.total,
                  fromAddress      |-> v.fromAddress,
                  toAddress        |-> v.toAddress,
                  createdAt        |-> createdMs ] >>)

\* FulfillmentError with the pickup time asked of every order.
FulfillmentErrorPickupTimeAlways(body) ==
    IF ~body.custName \/ ~body.custPhone
    THEN <<"Customer name and phone required">>
    ELSE IF body.fulfillment = ""
    THEN <<"Fulfillment type required (pickup or delivery)">>
    ELSE IF ~body.pickup_time
    THEN <<"Pickup time required for pickup orders">>
    ELSE IF body.fulfillment = "delivery" /\ ~body.delivery_address
    THEN <<"Delivery address required for delivery orders">>
    ELSE IF body.fulfillment = "delivery" /\ ~body.delivery_window
    THEN <<"Delivery window required for delivery orders">>
    ELSE <<>>

\* Lines 297-318: the customer and fulfillment fields, as an optional error.
\* custName, custPhone, pickup_time, delivery_address and delivery_window
\* say whether the field is present and truthy; fulfillment is "" when absent.
FulfillmentError(body) ==
    IF ~body.custName \/ ~body.custPhone
    THEN <<"Customer name and phone required">>
    ELSE IF body.fulfillment = ""
    THEN <<"Fulfillment type required (pickup or delivery)">>
    ELSE IF body.fulfillment = "pickup" /\ ~body.pickup_time
    THEN <<"Pickup time required for pickup orders">>
    ELSE IF body.fulfillment = "delivery" /\ ~body.delivery_address
    THEN <<"Delivery address required for delivery orders">>
    ELSE IF body.fulfillment = "delivery" /\ ~body.delivery_window
    THEN <<"Delivery window required for delivery orders">>
    ELSE <<>>

\* !paymentHeader at line 235: no header, or an empty one.
NoPaymentHeader(q) == IF q.header = <<>> THEN TRUE ELSE q.header[1].empty

\* InputError with the customer and fulfillment fields validated together
\* with the items, before the payment branch.
InputErrorChecksFields(q) ==
    IF q.body.json = "malformed"
    THEN <<ErrorResponse(400, "Invalid JSON body", "")>>
    ELSE IF q.body.json = "null"
    THEN <<ErrorResponse(500, "Internal Server Error", "")>>
    ELSE IF (IF q.body.items = <<>> THEN TRUE ELSE q.body.items[1] = <<>>)
    THEN <<ErrorResponse(400, "No items specified", "")>>
    ELSE IF calculateOrderTotal(q.body.items[1]).items = <<>>
    THEN <<Response(400, "No valid items found", "", q.body.items, <<>>, <<>>)>>
    ELSE IF FulfillmentError(q.body) # <<>>
    THEN <<ErrorResponse(400, FulfillmentError(q.body)[1], "")>>
    ELSE <<>>

\* Lines 215-232: the answer given before the payment branch, if any.
\* A body that is the JSON value null makes body.items throw; the framework
\* answers an uncaught exception with 500.
InputError(q) ==
    IF q.body.json = "malformed"
    THEN <<ErrorResponse(400, "Invalid JSON body", "")>>
    ELSE IF q.body.json = "null"
    THEN <<ErrorResponse(500, "Internal Server Error", "")>>
    ELSE IF (IF q.body.items = <<>> THEN TRUE ELSE q.body.items[1] = <<>>)
    THEN <<ErrorResponse(400, "No items specified", "")>>
    ELSE IF calculateOrderTotal(q.body.items[1]).items = <<>>
    THEN <<Response(400, "No valid items found", "", q.body.items, <<>>, <<>>)>>
    ELSE <<>>

(***************************************************************************)
(* The requests the model sends.                                           *)
(***************************************************************************)
Body(json, items, custName, custPhone, fulfillment, pickup_time, delivery_address, delivery_window) ==
    [ json |-> json, items |-> items, custName |-> custName,
      custPhone |-> custPhone, fulfillment |-> fulfillment,
      pickup_time |-> pickup_time, delivery_address |-> delivery_address,
      delivery_window |-> delivery_window ]

PickupBody(items) == Body("object", items, TRUE, TRUE, "pickup", TRUE, FALSE, FALSE)
DeliveryBody(items) == Body("object", items, TRUE, TRUE, "delivery", FALSE, TRUE, TRUE)

\* The specification's scenario: brisket and chips, 13.59 in all.
ScenarioItems == <<"brisket", "chips">>

ItemSamples ==
    { <<>>,                               \* no items field
      << <<>> >>,                         \* items: []
      << <<"not-a-real-id">> >>,
      << ScenarioItems >>,
      << <<"brisket", "not-a-real-id">> >>,
      << <<"chips", "chips">> >>,
      << <<"brisket", "chips", "chips">> >>,
      << <<"water">> >>,
      << NineBrisket >> }

BodySamples ==
    {PickupBody(i) : i \in ItemSamples}
    \cup {DeliveryBody(<<ScenarioItems>>)}
    \cup {[PickupBody(<<ScenarioItems>>) EXCEPT !.json = j] : j \in {"malformed", "null"}}
    \cup {[PickupBody(<<ScenarioItems>>) EXCEPT !.custName = FALSE],
          [PickupBody(<<ScenarioItems>>) EXCEPT !.custPhone = FALSE],
          [PickupBody(<<ScenarioItems>>) EXCEPT !.fulfillment = ""],
          [PickupBody(<<ScenarioItems>>) EXCEPT !.pickup_time = FALSE],
          [PickupBody(<<ScenarioItems>>) EXCEPT !.fulfillment = "drone"],
          [DeliveryBody(<<ScenarioItems>>) EXCEPT !.delivery_address = FALSE],
          [DeliveryBody(<<ScenarioItems>>) EXCEPT !.delivery_window = FALSE],
          [DeliveryBody(<< <<"water">> >>) EXCEPT !.delivery_window = FALSE],
          [PickupBody(<< <<"not-a-real-id">> >>) EXCEPT !.custPhone = FALSE]}

\* The clock starts one millisecond before a full second, so that the
\* seconds read by the verifier change while requests are handled.
StartMs == 2 * MsPerSecond - 1
StartSecond == StartMs \div MsPerSecond

\* A proof that is valid at every instant of the model: both ends of its
\* window are met exactly (now = validAfter at the start, now = validBefore
\* after the second has turned).
GoodProof ==
    Proof("object", Str(<<"0", "x", "s", "i", "g">>), "object", AddrA, AddrB,
          IntString(1359 * UsdcUnitsPerCent),
          Seconds(StartSecond), Seconds(StartSecond + 1))

\* The encoding of JSON.stringify(GoodProof) with "_" in place of the digit
\* at index 136, the first digit of the bytes "to\"".
UrlSafeHeader ==
    [empty |-> FALSE, illegal |-> 0, stray |-> "url-safe", text |-> GoodProof]

ProofSamples ==
    { GoodProof,
      NotJson,
      JsonNull,
      [GoodProof EXCEPT !.payload = "absent"],
      [GoodProof EXCEPT !.authorization = "absent"],
      [GoodProof EXCEPT !.from = AddrNoPrefix],
      [GoodProof EXCEPT !.to = Absent],
      [GoodProof EXCEPT !.from = AddrShort, !.to = AddrNonHex],
      [GoodProof EXCEPT !.signature = Absent],
      [GoodProof EXCEPT !.value = IntString(5 * UsdcUnitsPerCent)],
      [GoodProof EXCEPT !.value = StringValue(Chars("13.59"))],
      [GoodProof EXCEPT !.validAfter = Seconds(StartSecond + 1)],
      [GoodProof EXCEPT !.validBefore = Seconds(StartSecond)],
      [GoodProof EXCEPT !.validAfter = NoTime, !.validBefore = Seconds(0)] }

HeaderSamples ==
    { <<>>, <<EmptyHeader>>, <<Header(1, GoodProof)>>,
      <<StrayHeader("padding-first", GoodProof)>>,
      <<StrayHeader("after-padding", GoodProof)>>, <<UrlSafeHeader>> }
    \cup { <<Header(0, t)>> : t \in ProofSamples }

Request(header, body) == [header |-> header, body |-> body]

\* Slot 1 takes a sample request: any header with the scenario's order, and
\* any body with no header, with the good proof or with one that expires
\* when the second turns.
\* Slot 2 holds a request handled at the same time: one that pays, or one
\* that asks for the payment details.
Slots == {1, 2}

Requests(r) ==
    IF r = 1
    THEN {Request(h, PickupBody(<<ScenarioItems>>)) : h \in HeaderSamples}
         \cup {Request(h, b) :
                  h \in { <<>>, <<Header(0, GoodProof)>>,
                          <<Header(0, [GoodProof EXCEPT
                                          !.validBefore = Seconds(StartSecond)])>> },
                  b \in BodySamples}
    ELSE {Request(h, PickupBody(<<ScenarioItems>>)) : h \in {<<>>, <<Header(0, GoodProof)>>}}

NoRequest == Request(<<>>, PickupBody(<<>>))

(***************************************************************************)
(* The state machine.  A handler gives up control where the code awaits:   *)
(* the body (217), the address (244), the verification (284); and          *)
(* createPayToAddress where it awaits the backend (stripe.ts 69).  What    *)
(* follows an await runs in a later turn of the event loop, also when the  *)
(* awaited function returned without waiting.                              *)
(***************************************************************************)
Init ==
    /\ demoMode \in BOOLEAN
    /\ stripeClient = FALSE
    /\ clock = StartMs
    /\ pc = [r \in Slots |-> "idle"]
    /\ req = [r \in Slots |-> NoRequest]
    /\ verification = [r \in Slots |-> <<>>]
    /\ backend = [r \in Slots |-> <<>>]
    /\ reached = [r \in Slots |-> {}]
    /\ arrival = [r \in Slots |-> FALSE]
    /\ resp = [r \in Slots |-> <<>>]
    /\ vin = <<>>
    /\ vout = <<>>
    /\ fin = <<>>
    /\ fout = <<>>
    /\ exported = <<>>

\* Time passes.
Tick ==
    /\ clock < StartMs + MaxTicks
    /\ clock' = clock + 1
    /\ UNCHANGED <<demoMode, stripeClient, pc, req, verification, backend,
                   reached, resp, vin, vout, fin, exported, fout, arrival>>

\* A request arrives (211-217).  Each slot handles one request.  The node
\* process takes it whatever the other requests are doing; the model notes
\* when another request is waiting on its backend call at that moment.
Receive(r) ==
    /\ pc[r] = "idle"
    /\ \E q \in Requests(r) : req' = [req EXCEPT ![r] = q]
    /\ pc' = [pc EXCEPT ![r] = "parsing"]
    /\ verification' = [verification EXCEPT ![r] = <<>>]
    /\ backend' = [backend EXCEPT ![r] = <<>>]
    /\ reached' = [reached EXCEPT ![r] = {}]
    /\ arrival' = [arrival EXCEPT ![r] =
           \E s \in Slots \ {r} : pc[s] = "provisioning"]
    /\ resp' = [resp EXCEPT ![r] = <<>>]
    /\ UNCHANGED <<demoMode, stripeClient, clock, vin, vout, fin, exported, fout>>

Respond(r, response) ==
    /\ resp' = [resp EXCEPT ![r] = <<response>>]
    /\ pc' = [pc EXCEPT ![r] = "done"]

\* Lines 215-232: the body is parsed and priced; a bad input is answered.
RejectInput(r) ==
    /\ pc[r] = "parsing"
    /\ InputError(req[r]) # <<>>
    /\ Respond(r, InputError(req[r])[1])
    /\ UNCHANGED <<demoMode, stripeClient, clock, req, verification, backend,
                   reached, vin, vout, fin, exported, fout, arrival>>

\* Lines 234-244 with stripe.ts 43-87: no proof, so an address is asked
\* for.  createPayToAddress returns (the placeholder, in demo mode) or builds
\* the client on first use and calls the backend; either way the handler
\* waits at 244 for the promise it was given.
Provision(r) ==
    LET q == req[r]
        orderDetails == calculateOrderTotal(q.body.items[1])
        decision == PayToDecision(<<>>, <<orderDetails.totalInCents>>, demoMode)
    IN  /\ pc[r] = "parsing"
        /\ InputError(q) = <<>>
        /\ NoPaymentHeader(q)
        /\ reached' = [reached EXCEPT ![r] = @ \cup {"provision"}]
        /\ IF decision.call
           THEN /\ stripeClient' = TRUE
                /\ backend' = [backend EXCEPT ![r] =
                       Append(@, [amount |-> decision.amount, outcome |-> "pending"])]
                /\ pc' = [pc EXCEPT ![r] = "provisioning"]
           ELSE /\ pc' = [pc EXCEPT ![r] = "addressed"]
                /\ UNCHANGED <<stripeClient, backend>>
        /\ UNCHANGED <<demoMode, clock, req, verification, resp, vin, vout, fin, exported, fout, arrival>>

\* ProvisionResponse without the check for a missing address (stripe.ts 92).
ProvisionResponseNoAddressCheck(orderDetails, outcome) ==
    IF outcome = "address"
    THEN PaymentRequired(orderDetails, DepositAddress)
    ELSE IF outcome = "noaddress"
    THEN PaymentRequired(orderDetails, <<>>)
    ELSE ErrorResponse(500, "Failed to create payment address", ErrBackend)

\* Lines 245-280: the answer once createPayToAddress has settled.  It
\* rejects when the call threw or gave no address (stripe.ts 92-103), and the
\* handler's catch answers 500.
ProvisionResponse(orderDetails, outcome) ==
    IF outcome = "address"
    THEN PaymentRequired(orderDetails, DepositAddress)
    ELSE ErrorResponse(500, "Failed to create payment address",
                       IF outcome = "throws" THEN ErrBackend
                       ELSE ErrNoDepositAddress)

\* BackendReturn with one retry: a call that threw is made again before
\* createPayToAddress settles.
BackendReturnRetries(r) ==
    /\ pc[r] = "provisioning"
    /\ \E outcome \in BackendOutcomes :
          IF outcome = "throws" /\ Len(backend[r]) = 1
          THEN /\ backend' = [backend EXCEPT ![r] =
                      Append([@ EXCEPT ![1].outcome = outcome],
                             [amount |-> @[1].amount, outcome |-> "pending"])]
               /\ UNCHANGED pc
          ELSE /\ backend' = [backend EXCEPT ![r][Len(backend[r])].outcome = outcome]
               /\ pc' = [pc EXCEPT ![r] = "addressed"]
    /\ UNCHANGED <<demoMode, stripeClient, clock, req, verification,
                   reached, resp, vin, vout, fin, exported, fout, arrival>>

\* stripe.ts 89-104: the backend call ends and createPayToAddress settles:
\* it returns the deposit address, or throws because there is none (92) or
\* because the call threw (101-103).  The handler is resumed in a later turn.
BackendReturn(r) ==
    /\ pc[r] = "provisioning"
    /\ \E outcome \in BackendOutcomes :
          backend' = [backend EXCEPT ![r][Len(backend[r])].outcome = outcome]
    /\ pc' = [pc EXCEPT ![r] = "addressed"]
    /\ UNCHANGED <<demoMode, stripeClient, clock, req, verification,
                   reached, resp, vin, vout, fin, exported, fout, arrival>>

\* Lines 244-280: the handler is resumed with what createPayToAddress gave,
\* and answers: the challenge with the address, or 500 from the catch at 245.
Challenge(r) ==
    LET orderDetails == calculateOrderTotal(req[r].body.items[1])
        decision == PayToDecision(<<>>, <<orderDetails.totalInCents>>, demoMode)
    IN  /\ pc[r] = "addressed"
        /\ Respond(r, IF backend[r] = <<>>
                      THEN PaymentRequired(orderDetails, decision.address)
                      ELSE ProvisionResponse(orderDetails,
                               backend[r][Len(backend[r])].outcome))
        /\ UNCHANGED <<demoMode, stripeClient, clock, req, verification, backend,
                       reached, vin, vout, fin, exported, fout, arrival>>

\* Verify with the amount before tax given as the expected amount.
VerifyExpectsSubtotal(r) ==
    LET q == req[r]
        orderDetails == calculateOrderTotal(q.body.items[1])
    IN  /\ pc[r] = "parsing"
        /\ InputError(q) = <<>>
        /\ ~NoPaymentHeader(q)
        /\ verification' = [verification EXCEPT ![r] =
               << [ result |-> verifyPaymentHeader(q.header[1],
                                                  orderDetails.subtotal, clock),
                    expected |-> orderDetails.subtotal,
                    at |-> clock ] >>]
        /\ reached' = [reached EXCEPT ![r] = @ \cup {"verify"}]
        /\ pc' = [pc EXCEPT ![r] = "verified"]
        /\ UNCHANGED <<demoMode, stripeClient, clock, req, backend, resp, vin, vout, fin, exported, fout, arrival>>

\* Verify held back while any request waits on the backend: the handlers
\* take turns.
VerifyAfterBackendCalls(r) ==
    LET q == req[r]
        orderDetails == calculateOrderTotal(q.body.items[1])
    IN  /\ pc[r] = "parsing"
        /\ \A s \in Slots : pc[s] # "provisioning"
        /\ InputError(q) = <<>>
        /\ ~NoPaymentHeader(q)
        /\ verification' = [verification EXCEPT ![r] =
               << [ result |-> verifyPaymentHeader(q.header[1],
                                                  orderDetails.totalInCents, clock),
                    expected |-> orderDetails.totalInCents,
                    at |-> clock ] >>]
        /\ reached' = [reached EXCEPT ![r] = @ \cup {"verify"}]
        /\ pc' = [pc EXCEPT ![r] = "verified"]
        /\ UNCHANGED <<demoMode, stripeClient, clock, req, backend, resp, vin, vout, fin, exported, fout, arrival>>

\* Verify with a record of the proofs already accepted: a proof that another
\* request has presented and had accepted is rejected as used.
VerifyRejectsReplay(r) ==
    LET q == req[r]
        orderDetails == calculateOrderTotal(q.body.items[1])
        used == \E s \in Slots \ {r} :
                    /\ verification[s] # <<>>
                    /\ verification[s][1].result.valid
                    /\ req[s].header = q.header
    IN  /\ pc[r] = "parsing"
        /\ InputError(q) = <<>>
        /\ ~NoPaymentHeader(q)
        /\ verification' = [verification EXCEPT ![r] =
               << [ result |-> IF used THEN Rejected("Payment proof already used")
                               ELSE verifyPaymentHeader(q.header[1],
                                        orderDetails.totalInCents, clock),
                    expected |-> orderDetails.totalInCents,
                    at |-> clock ] >>]
        /\ reached' = [reached EXCEPT ![r] = @ \cup {"verify"}]
        /\ pc' = [pc EXCEPT ![r] = "verified"]
        /\ UNCHANGED <<demoMode, stripeClient, clock, req, backend, resp, vin, vout, fin, exported, fout, arrival>>

\* Lines 283-287: the proof is verified against the computed total, at the
\* time the handler runs.
Verify(r) ==
    LET q == req[r]
        orderDetails == calculateOrderTotal(q.body.items[1])
    IN  /\ pc[r] = "parsing"
        /\ InputError(q) = <<>>
        /\ ~NoPaymentHeader(q)
        /\ verification' = [verification EXCEPT ![r] =
               << [ result |-> verifyPaymentHeader(q.header[1],
                                                  orderDetails.totalInCents, clock),
                    expected |-> orderDetails.totalInCents,
                    at |-> clock ] >>]
        /\ reached' = [reached EXCEPT ![r] = @ \cup {"verify"}]
        /\ pc' = [pc EXCEPT ![r] = "verified"]
        /\ UNCHANGED <<demoMode, stripeClient, clock, req, backend, resp, vin, vout, fin, exported, fout, arrival>>

\* Unauthorized without the test of verification.valid: the order is built.
UnauthorizedCreatesOrder(r) ==
    /\ pc[r] = "verified"
    /\ ~verification[r][1].result.valid
    /\ Respond(r, Created(req[r].body, calculateOrderTotal(req[r].body.items[1]),
                          verification[r][1].result, clock, clock))
    /\ UNCHANGED <<demoMode, stripeClient, clock, req, verification, backend,
                   reached, vin, vout, fin, exported, fout, arrival>>

\* Unauthorized with the verifier's reason left out of the answer.
UnauthorizedNoReason(r) ==
    /\ pc[r] = "verified"
    /\ ~verification[r][1].result.valid
    /\ Respond(r, ErrorResponse(401, "Invalid payment header", ""))
    /\ UNCHANGED <<demoMode, stripeClient, clock, req, verification, backend,
                   reached, vin, vout, fin, exported, fout, arrival>>

\* Lines 289-295: the proof was not valid.
Unauthorized(r) ==
    /\ pc[r] = "verified"
    /\ ~verification[r][1].result.valid
    /\ Respond(r, ErrorResponse(401, "Invalid payment header",
                                verification[r][1].result.error))
    /\ UNCHANGED <<demoMode, stripeClient, clock, req, verification, backend,
                   reached, vin, vout, fin, exported, fout, arrival>>

\* Lines 297-355: the proof was valid; the fulfillment fields are checked and
\* the order is built.  The clock is read for the orderId and read again for
\* createdAt, and may have moved on in between.
Fulfill(r) ==
    LET q == req[r]
        orderDetails == calculateOrderTotal(q.body.items[1])
        missing == FulfillmentError(q.body)
    IN  /\ pc[r] = "verified"
        /\ verification[r][1].result.valid
        /\ reached' = [reached EXCEPT ![r] = @ \cup {"fulfillment"}]
        /\ IF missing # <<>>
           THEN /\ Respond(r, ErrorResponse(400, missing[1], ""))
                /\ UNCHANGED clock
           ELSE \E createdMs \in clock .. (StartMs + MaxTicks) :
                    /\ Respond(r, Created(q.body, orderDetails,
                                          verification[r][1].result, clock, createdMs))
                    /\ clock' = createdMs
        /\ UNCHANGED <<demoMode, stripeClient, req, verification,
                       backend, vin, vout, fin, exported, fout, arrival>>

Next ==
    \/ Tick
    \/ \E r \in Slots : Receive(r)
    \/ \E r \in Slots : RejectInput(r)
    \/ \E r \in Slots : Provision(r)
    \/ \E r \in Slots : BackendReturn(r)
    \/ \E r \in Slots : Challenge(r)
    \/ \E r \in Slots : Verify(r)
    \/ \E r \in Slots : Unauthorized(r)
    \/ \E r \in Slots : Fulfill(r)

Spec == Init /\ [][Next]_vars

\* The event loop runs every continuation that is ready.  Nothing is assumed
\* about the backend: a call may stay pending for ever.
FairSpec ==
    /\ Spec
    /\ \A r \in Slots :
          /\ WF_vars(RejectInput(r))
          /\ WF_vars(Provision(r))
          /\ WF_vars(Challenge(r))
          /\ WF_vars(Verify(r))
          /\ WF_vars(Unauthorized(r))
          /\ WF_vars(Fulfill(r))

(***************************************************************************)
(* verifyPaymentHeader on its own: one call, its input drawn from the      *)
(* proofs that differ from GoodProof in at most MaxDefects fields.         *)
(***************************************************************************)
MaxDefects == 2

AddressSamples ==
    {Absent, NumberVal, AddrEmpty, AddrNoPrefix, AddrShort, AddrNonHex, AddrA}

TimeSamples ==
    {NoTime} \cup {Seconds(n) : n \in {0} \cup (StartSecond - 1 .. StartSecond + 2)}

OneDefect(p) ==
    {NotJson, EmptyText, JsonNull}
    \cup {[p EXCEPT !.payload = x] : x \in {"absent", "scalar"}}
    \cup {[p EXCEPT !.authorization = x] : x \in {"absent", "scalar"}}
    \cup {[p EXCEPT !.from = x] : x \in AddressSamples}
    \cup {[p EXCEPT !.to = x] : x \in AddressSamples}
    \cup {[p EXCEPT !.signature = x] : x \in {Absent, NumberVal, Str(<<>>)}}
    \cup {[p EXCEPT !.value = x] : x \in ValueSamples}
    \cup {[p EXCEPT !.validAfter = x] : x \in TimeSamples}
    \cup {[p EXCEPT !.validBefore = x] : x \in TimeSamples}

RECURSIVE ProofsWithin(_)
ProofsWithin(k) ==
    IF k = 0 THEN {GoodProof}
    ELSE LET fewer == ProofsWithin(k - 1)
         IN  fewer \cup UNION {OneDefect(p) : p \in fewer}

VerifyInputs(defects) ==
    { [header |-> h, expected |-> 1359, nowMs |-> n] :
        h \in { Header(i, t) : i \in 0..1, t \in ProofsWithin(defects) }
              \cup { StrayHeader(k, t) : k \in {"padding-first", "after-padding"},
                                         t \in ProofsWithin(defects - 1) }
              \cup { UrlSafeHeader },
        n \in {StartMs, StartMs + 1} }

InitVerify ==
    /\ demoMode = FALSE
    /\ stripeClient = FALSE
    /\ clock = StartMs
    /\ pc = [r \in Slots |-> "idle"]
    /\ req = [r \in Slots |-> NoRequest]
    /\ verification = [r \in Slots |-> <<>>]
    /\ backend = [r \in Slots |-> <<>>]
    /\ reached = [r \in Slots |-> {}]
    /\ arrival = [r \in Slots |-> FALSE]
    /\ resp = [r \in Slots |-> <<>>]
    /\ vin \in {<<i>> : i \in VerifyInputs(MaxDefects)}
    /\ vout = <<>>
    /\ fin = <<>>
    /\ fout = <<>>
    /\ exported = <<>>

VerifyCall ==
    /\ vout = <<>>
    /\ vout' = <<verifyPaymentHeader(vin[1].header, vin[1].expected, vin[1].nowMs)>>
    /\ UNCHANGED <<demoMode, stripeClient, clock, pc, req, verification,
                   backend, reached, resp, vin, fin, exported, fout, arrival>>

VerifySpec == InitVerify /\ [][VerifyCall]_vars

(***************************************************************************)
(* The functions stripe.ts exports, on their own.  createPayToAddress is   *)
(* called once with a context that may hold a payment header and an        *)
(* amount; fout tells how the call stands: pending on the backend,         *)
(* returned with an address, or threw; calls lists the amounts sent to     *)
(* paymentIntents.create.  getStripe and getPaymentIntentStatus are called *)
(* at most once each, before, during or after that call.                   *)
(***************************************************************************)
PayToContext(paymentHeader, amountInCents) ==
    [fn |-> "createPayToAddress", paymentHeader |-> paymentHeader,
     amountInCents |-> amountInCents]

PayToContexts ==
    { PayToContext(h, a) :
        h \in { <<>>, <<EmptyHeader>> }
              \cup { <<Header(i, t)>> : i \in 0..1, t \in ProofsWithin(1) }
              \cup { <<StrayHeader(k, t)>> :
                         k \in {"padding-first", "after-padding"},
                         t \in {GoodProof, [GoodProof EXCEPT !.to = Absent]} }
              \cup { <<UrlSafeHeader>> },
        a \in { <<>>, <<0>>, <<1>>, <<1359>> } }

PayToResult(state, address, calls, error) ==
    [state |-> state, address |-> address, calls |-> calls, error |-> error]

InitProvision ==
    /\ demoMode \in BOOLEAN
    /\ stripeClient = FALSE
    /\ clock = StartMs
    /\ pc = [r \in Slots |-> "idle"]
    /\ req = [r \in Slots |-> NoRequest]
    /\ verification = [r \in Slots |-> <<>>]
    /\ backend = [r \in Slots |-> <<>>]
    /\ reached = [r \in Slots |-> {}]
    /\ arrival = [r \in Slots |-> FALSE]
    /\ resp = [r \in Slots |-> <<>>]
    /\ vin = <<>>
    /\ vout = <<>>
    /\ fin \in {<<x>> : x \in PayToContexts}
    /\ fout = <<>>
    /\ exported = <<>>

\* stripe.ts 41-87: the call runs up to the awaited paymentIntents.create,
\* or returns before it.
CreatePayToAddressCall ==
    LET decision == PayToDecision(fin[1].paymentHeader, fin[1].amountInCents,
                                  demoMode)
    IN  /\ fout = <<>>
        /\ IF decision.call
           THEN /\ stripeClient' = TRUE
                /\ fout' = <<PayToResult("pending", <<>>, <<decision.amount>>, "")>>
           ELSE /\ fout' = <<PayToResult("returned", decision.address, <<>>, "")>>
                /\ UNCHANGED stripeClient
        /\ UNCHANGED <<demoMode, clock, pc, req, verification, backend,
                       reached, resp, vin, vout, fin, exported, arrival>>

\* stripe.ts 89-104: the backend call ends.
CreatePayToAddressSettle ==
    /\ fout # <<>>
    /\ fout[1].state = "pending"
    /\ \E outcome \in BackendOutcomes :
          fout' = << IF outcome = "address"
                     THEN PayToResult("returned", DepositAddress, fout[1].calls, "")
                     ELSE PayToResult("threw", <<>>, fout[1].calls,
                                      IF outcome = "throws" THEN ErrBackend
                                      ELSE ErrNoDepositAddress) >>
    /\ UNCHANGED <<demoMode, stripeClient, clock, pc, req, verification,
                   backend, reached, resp, vin, vout, fin, exported, arrival>>

\* getStripeClient, stripe.ts 10-23, where no key is set.
ErrNoKey == "STRIPE_SECRET_KEY not set. Get it from Stripe Dashboard or GCP Secret Manager."

\* What paymentIntents.retrieve may answer: status, amount and currency of
\* the PaymentIntent.
IntentSamples ==
    { [status |-> s, amount |-> 1359, currency |-> "usd"] :
        s \in {"requires_action", "succeeded"} }

ExportedCall(fn, id, state, result, error) ==
    [fn |-> fn, id |-> id, state |-> state, result |-> result, error |-> error]

\* stripe.ts 127-129: getStripe() returns the client, which getStripeClient
\* builds on first use, or throws where no key is set.
GetStripe ==
    /\ \A i \in 1..Len(exported) : exported[i].fn # "getStripe"
    /\ IF demoMode
       THEN /\ exported' = Append(exported,
                   ExportedCall("getStripe", "", "threw", <<>>, ErrNoKey))
            /\ UNCHANGED stripeClient
       ELSE /\ exported' = Append(exported,
                   ExportedCall("getStripe", "", "returned", <<>>, ""))
            /\ stripeClient' = TRUE
    /\ UNCHANGED <<demoMode, clock, pc, req, verification, backend, reached,
                   resp, vin, vout, fin, fout, arrival>>

\* stripe.ts 110-115: getPaymentIntentStatus(id) up to the awaited
\* paymentIntents.retrieve; without a key getStripeClient throws before it.
GetPaymentIntentStatusCall ==
    /\ \A i \in 1..Len(exported) : exported[i].fn # "getPaymentIntentStatus"
    /\ IF demoMode
       THEN /\ exported' = Append(exported,
                   ExportedCall("getPaymentIntentStatus", "pi_1", "threw",
                                <<>>, ErrNoKey))
            /\ UNCHANGED stripeClient
       ELSE /\ exported' = Append(exported,
                   ExportedCall("getPaymentIntentStatus", "pi_1", "pending",
                                <<>>, ""))
            /\ stripeClient' = TRUE
    /\ UNCHANGED <<demoMode, clock, pc, req, verification, backend, reached,
                   resp, vin, vout, fin, fout, arrival>>

\* stripe.ts 115-121: the retrieval ends: its answer is returned in part, or
\* the call threw.
GetPaymentIntentStatusSettle ==
    /\ \E i \in 1..Len(exported) :
          /\ exported[i].state = "pending"
          /\ \/ \E intent \in IntentSamples :
                   exported' = [exported EXCEPT ![i].state = "returned",
                                                ![i].result = <<intent>>]
             \/ exported' = [exported EXCEPT ![i].state = "threw",
                                             ![i].error = ErrBackend]
    /\ UNCHANGED <<demoMode, stripeClient, clock, pc, req, verification,
                   backend, reached, resp, vin, vout, fin, fout, arrival>>

ProvisionNext ==
    \/ CreatePayToAddressCall
    \/ CreatePayToAddressSettle
    \/ GetStripe
    \/ GetPaymentIntentStatusCall
    \/ GetPaymentIntentStatusSettle

ProvisionSpec == InitProvision /\ [][ProvisionNext]_vars

(***************************************************************************)
(* calculateOrderTotal on its own: one call on a sequence of at most       *)
(* MaxIds ids, known and unknown, or on the nine brisket.                  *)
(***************************************************************************)
InitCalc ==
    /\ demoMode = FALSE
    /\ stripeClient = FALSE
    /\ clock = StartMs
    /\ pc = [r \in Slots |-> "idle"]
    /\ req = [r \in Slots |-> NoRequest]
    /\ verification = [r \in Slots |-> <<>>]
    /\ backend = [r \in Slots |-> <<>>]
    /\ reached = [r \in Slots |-> {}]
    /\ arrival = [r \in Slots |-> FALSE]
    /\ resp = [r \in Slots |-> <<>>]
    /\ vin = <<>>
    /\ vout = <<>>
    /\ fin \in {<<[fn |-> "calculateOrderTotal", itemIds |-> s]>> :
                    s \in IdSequences(MaxIds) \cup {NineBrisket}}
    /\ fout = <<>>
    /\ exported = <<>>

CalcCall ==
    /\ fout = <<>>
    /\ fout' = <<calculateOrderTotal(fin[1].itemIds)>>
    /\ UNCHANGED <<demoMode, stripeClient, clock, pc, req, verification,
                   backend, reached, resp, vin, vout, fin, exported, arrival>>

CalcSpec == InitCalc /\ [][CalcCall]_vars

(***************************************************************************)
(* calculateOrderTotal for any catalog on its own: one call, on one of a   *)
(* few catalogs and a sequence of at most MaxIds of its ids, or on nine of *)
(* its first item.                                                         *)
(***************************************************************************)
\* The catalog of the pipeline model.
CatalogScenario == MenuData(allItems, TaxRateNum, TaxRateDen)

\* A catalog that gives the example of docs/TESTING.md: brisket, chips and
\* soda cost 23.00, with 2.04 of tax.
CatalogTesting ==
    MenuData(<< [id |-> "brisket", name |-> "Brisket Sandwich", price |-> 1600],
                [id |-> "chips",   name |-> "Chips",            price |-> 400],
                [id |-> "soda",    name |-> "Soda",             price |-> 300] >>,
             8875, 100000)

\* Other prices at the rate of the specification's scenario.
CatalogOther ==
    MenuData(<< [id |-> "brisket", name |-> "Brisket Sandwich", price |-> 950],
                [id |-> "chips",   name |-> "Chips",            price |-> 300],
                [id |-> "soda",    name |-> "Soda",             price |-> 200] >>,
             875, 10000)

CatalogSamples == {CatalogScenario, CatalogTesting, CatalogOther}

RECURSIVE IdSequencesOver(_, _)
IdSequencesOver(ids, n) ==
    IF n = 0 THEN {<<>>}
    ELSE LET shorter == IdSequencesOver(ids, n - 1)
         IN  shorter \cup {Append(s, id) : s \in shorter, id \in ids}

DoubleCalcInputs ==
    UNION { { [fn |-> "calculateOrderTotal", menuData |-> c, itemIds |-> s] :
                s \in IdSequencesOver({c.items[i].id : i \in 1..Len(c.items)}
                                         \cup {"not-a-real-id"}, MaxIds)
                      \cup {Repeat(c.items[1].id, 9)} } :
            c \in CatalogSamples }

InitDoubleCalc ==
    /\ demoMode = FALSE
    /\ stripeClient = FALSE
    /\ clock = StartMs
    /\ pc = [r \in Slots |-> "idle"]
    /\ req = [r \in Slots |-> NoRequest]
    /\ verification = [r \in Slots |-> <<>>]
    /\ backend = [r \in Slots |-> <<>>]
    /\ reached = [r \in Slots |-> {}]
    /\ arrival = [r \in Slots |-> FALSE]
    /\ resp = [r \in Slots |-> <<>>]
    /\ vin = <<>>
    /\ vout = <<>>
    /\ fin \in {<<x>> : x \in DoubleCalcInputs}
    /\ fout = <<>>
    /\ exported = <<>>

DoubleCalcCall ==
    /\ fout = <<>>
    /\ fout' = <<calculateOrderTotalDouble(fin[1].menuData, fin[1].itemIds)>>
    /\ UNCHANGED <<demoMode, stripeClient, clock, pc, req, verification,
                   backend, reached, resp, vin, vout, fin, exported, arrival>>

DoubleCalcSpec == InitDoubleCalc /\ [][DoubleCalcCall]_vars

(***************************************************************************)
(* The menu routes (src/src/routes/menu.ts 1-104), mounted under /api.  A  *)
(* path is the sequence of its segments after /api.  The framework runs    *)
(* the handlers whose pattern matches the path in the order in which they  *)
(* were registered, and the first one that returns a response ends the     *)
(* dispatch; each handler here returns one.                                *)
(***************************************************************************)
menuRoutes ==
    << [method |-> "GET", pattern |-> <<"menu">>,              handler |-> "/menu"],
       [method |-> "GET", pattern |-> <<"menu", ":id">>,       handler |-> "/menu/:id"],
       [method |-> "GET", pattern |-> <<"menu", "calculate">>, handler |-> "/menu/calculate"] >>

\* A pattern segment that starts with a colon is a parameter and matches
\* any segment.
IsParam(segment) == segment = ":id"

MatchesRoute(route, method, path) ==
    /\ route.method = method
    /\ Len(route.pattern) = Len(path)
    /\ \A i \in 1..Len(path) :
          IsParam(route.pattern[i]) \/ route.pattern[i] = path[i]

MenuResponse(status, handler, error, id, item, summary, notFound) ==
    [ status |-> status, handler |-> handler, error |-> error, id |-> id,
      item |-> item, summary |-> summary, notFound |-> notFound ]

\* Lines 11-20.
GetMenu == MenuResponse(200, "/menu", "", "", <<>>, <<>>, <<>>)

\* Lines 26-50.
GetMenuItem(id) ==
    LET item == FindItem(id)
    IN  IF item = <<>>
        THEN MenuResponse(404, "/menu/:id", "Item not found", id, <<>>, <<>>, <<>>)
        ELSE MenuResponse(200, "/menu/:id", "", "", item, <<>>, <<>>)

NotInCatalog(id) == FindItem(id) = <<>>

\* String.prototype.split(","): the pieces of the text between its commas,
\* one piece more than there are commas.
RECURSIVE Split(_)
Split(chars) ==
    IF \A i \in 1..Len(chars) : chars[i] # ","
    THEN <<chars>>
    ELSE <<SubSeq(chars, 1, Min({i \in 1..Len(chars) : chars[i] = ","}) - 1)>>
         \o Split(SubSeq(chars, Min({i \in 1..Len(chars) : chars[i] = ","}) + 1,
                         Len(chars)))

\* Line 67: itemsParam.split(",").map(s => s.trim()).  String.prototype.trim
\* drops the white space and the line terminators at the two ends.
TrimmedIds(itemsParam) ==
    [ i \in 1..Len(Split(Chars(itemsParam))) |->
        TextOf(Trim(Split(Chars(itemsParam))[i]), 0,
               Len(Trim(Split(Chars(itemsParam))[i]))) ]

\* Lines 57-104.  itemsParam is the optional items query parameter, a text;
\* an empty parameter is falsy as a missing one is.  The sums are those of
\* calculateOrderTotal.
GetMenuCalculate(itemsParam) ==
    IF itemsParam = <<>> \/ itemsParam = <<"">>
    THEN MenuResponse(400, "/menu/calculate", "Missing items parameter", "",
                      <<>>, <<>>, <<>>)
    ELSE MenuResponse(200, "/menu/calculate", "", "", <<>>,
                      <<calculateOrderTotal(TrimmedIds(itemsParam[1]))>>,
                      SelectSeq(TrimmedIds(itemsParam[1]), NotInCatalog))

\* The handlers that match, in registration order; the first one answers.
\* Without a match the framework answers 404.
Dispatch(method, path, itemsParam) ==
    LET hits == {i \in 1..Len(menuRoutes) : MatchesRoute(menuRoutes[i], method, path)}
    IN  IF hits = {}
        THEN MenuResponse(404, "", "404 Not Found", "", <<>>, <<>>, <<>>)
        ELSE LET handler == menuRoutes[Min(hits)].handler
             IN  IF handler = "/menu" THEN GetMenu
                 ELSE IF handler = "/menu/:id" THEN GetMenuItem(path[2])
                 ELSE GetMenuCalculate(itemsParam)

MenuRequests ==
    { [fn |-> "GET", path |-> p, itemsParam |-> q] :
        p \in { <<"menu">>, <<"menu", "calculate">>,
                <<"menu", "calculate", "total">>, <<"order">> }
              \cup { <<"menu", id>> : id \in IdSamples },
        q \in { <<>>, <<"">>, <<"brisket">>, <<"brisket,chips">>,
                <<"brisket, chips ">>, <<" chips,not-a-real-id,\tchips\n">>,
                <<"water">>, <<"not-a-real-id">>, <<",">>, <<" ">>,
                <<"brisket,brisket,brisket,brisket,brisket,brisket,brisket,brisket,brisket">>,
                <<"chips,,water">>, <<"Brisket">> } }

InitMenu ==
    /\ demoMode = FALSE
    /\ stripeClient = FALSE
    /\ clock = StartMs
    /\ pc = [r \in Slots |-> "idle"]
    /\ req = [r \in Slots |-> NoRequest]
    /\ verification = [r \in Slots |-> <<>>]
    /\ backend = [r \in Slots |-> <<>>]
    /\ reached = [r \in Slots |-> {}]
    /\ arrival = [r \in Slots |-> FALSE]
    /\ resp = [r \in Slots |-> <<>>]
    /\ vin = <<>>
    /\ vout = <<>>
    /\ fin \in {<<x>> : x \in MenuRequests}
    /\ fout = <<>>
    /\ exported = <<>>

MenuGet ==
    /\ fout = <<>>
    /\ fout' = <<Dispatch("GET", fin[1].path, fin[1].itemsParam)>>
    /\ UNCHANGED <<demoMode, stripeClient, clock, pc, req, verification,
                   backend, reached, resp, vin, vout, fin, exported, arrival>>

MenuSpec == InitMenu /\ [][MenuGet]_vars

(***************************************************************************)
(* Vocabulary of the properties.                                           *)
(***************************************************************************)
\* The shape the specification asks of an address: the prefix and a
\* hexadecimal body of the fixed length.
IsAccountAddress(v) ==
    /\ v.t = "string"
    /\ StartsWith(v.s, AddrPrefix)
    /\ Len(v.s) = Len(AddrPrefix) + AddrHexLen
    /\ \A i \in (Len(AddrPrefix) + 1)..Len(v.s) : v.s[i] \in HexDigits

\* The body is a JSON object whose items hold at least one catalog id.
HasCatalogItem(q) ==
    /\ q.body.json = "object"
    /\ q.body.items # <<>>
    /\ FoundItems(q.body.items[1]) # <<>>

\* The total a direct call of the Price Calculator gives for the request.
DirectTotal(q) == calculateOrderTotal(q.body.items[1]).total

FulfillmentComplete(body) ==
    /\ body.custName /\ body.custPhone
    /\ \/ body.fulfillment = "pickup" /\ body.pickup_time
       \/ body.fulfillment = "delivery" /\ body.delivery_address
                                        /\ body.delivery_window

\* A proof as the specification wants it, whatever the time.
WellFormedProof(t) ==
    /\ t.json = "value" /\ t.payload = "object" /\ t.authorization = "object"
    /\ IsAccountAddress(t.from) /\ IsAccountAddress(t.to)
    /\ t.signature.t = "string" /\ t.signature.s # <<>>

\* The proof states a number of units that is between the units of the
\* expected cents less one and those of the expected cents and one, the
\* fraction of a cent set aside.
AmountMatches(t, expected) ==
    /\ t.value.t # "absent" /\ BigInt(t.value.text) # <<>>
    /\ ~BigInt(t.value.text)[1].negative
    /\ BigBitLength(BigInt(t.value.text)[1].magnitude) < 31
    /\ UsdcUnitsPerCent * (expected - Tolerance) <= BigToInt(BigInt(t.value.text)[1].magnitude)
    /\ BigToInt(BigInt(t.value.text)[1].magnitude) < UsdcUnitsPerCent * (expected + Tolerance + 1)

\* The latest second the model's clock shows.
LastSecond == (StartMs + MaxTicks) \div MsPerSecond

\* The proof's window covers every instant of the model.
AlwaysCurrent(t) ==
    /\ t.validAfter.t = "absent" \/ t.validAfter.n <= StartSecond
    /\ t.validBefore.t = "absent" \/ t.validBefore.n >= LastSecond

GoodRequest(q) ==
    /\ HasCatalogItem(q)
    /\ FulfillmentComplete(q.body)
    /\ q.header # <<>>
    /\ ~q.header[1].empty /\ q.header[1].illegal = 0
    /\ q.header[1].stray = "none"
    /\ WellFormedProof(q.header[1].text)
    /\ AlwaysCurrent(q.header[1].text)
    /\ AmountMatches(q.header[1].text, calculateOrderTotal(q.body.items[1]).totalInCents)

ProvisionFailed(r) ==
    /\ backend[r] # <<>>
    /\ backend[r][Len(backend[r])].outcome \in {"noaddress", "throws"}

Confirmed(r) ==
    /\ resp[r] # <<>>
    /\ resp[r][1].status = 201
    /\ resp[r][1].order # <<>>
    /\ resp[r][1].order[1].status = "confirmed"

(***************************************************************************)
(* The properties.                                                         *)
(***************************************************************************)

\* C1: a response carries an order exactly when it is the 201 response, the
\* order is then confirmed, and the request had a proof header for which
\* verifyPaymentHeader returned valid; the 400, 401, 402 and 500 responses,
\* the only others, carry no order.
C1_OrderOnlyAfterValidProof ==
    \A r \in Slots :
        resp[r] # <<>> =>
            /\ resp[r][1].status \in {201, 400, 401, 402, 500}
            /\ (resp[r][1].status = 201) <=> (resp[r][1].order # <<>>)
            /\ resp[r][1].order # <<>> =>
                  /\ resp[r][1].order[1].status = "confirmed"
                  /\ ~NoPaymentHeader(req[r])
                  /\ verification[r] # <<>>
                  /\ verification[r][1].result.valid

C1_Witness ==
    \E r \in Slots :
        /\ Confirmed(r)
        /\ ~NoPaymentHeader(req[r])
        /\ verification[r][1].result.valid

\* C2 as stated: every request without a proof header is answered 402, with
\* the preview total equal to the Price Calculator's total for its items.
C2_EveryRequestWithoutHeaderGets402 ==
    \A r \in Slots :
        (resp[r] # <<>> /\ req[r].header = <<>>) =>
            /\ resp[r][1].status = 402
            /\ resp[r][1].challenge # <<>>
            /\ HasCatalogItem(req[r])
            /\ resp[r][1].challenge[1].orderPreview.total = DirectTotal(req[r])

\* C2, amended: a request without a proof header is answered 402, with the
\* preview total equal to the Price Calculator's total for its items, exactly
\* when its body is an object with at least one catalog id in items and the
\* address provisioning succeeds; when the provisioning fails it is answered
\* 500, and when the body has no catalog id it is answered by the input
\* checks (400, or 500 for the body null), each time without a payment
\* challenge; a subtotal of 12.50 at the rate 0.0875 gives a preview total
\* of 13.59.
C2_PricedRequestWithoutHeaderGets402 ==
    \A r \in Slots :
        (resp[r] # <<>> /\ req[r].header = <<>>) =>
            IF ~HasCatalogItem(req[r])
            THEN /\ resp[r][1].status \in {400, 500}
                 /\ resp[r][1].challenge = <<>>
                 /\ backend[r] = <<>>
            ELSE IF ProvisionFailed(r)
            THEN /\ resp[r][1].status = 500
                 /\ resp[r][1].challenge = <<>>
            ELSE /\ resp[r][1].status = 402
                 /\ resp[r][1].challenge # <<>>
                 /\ resp[r][1].challenge[1].orderPreview.total = DirectTotal(req[r])
                 /\ (resp[r][1].challenge[1].orderPreview.subtotal = 1250
                       /\ TaxRateNum * 10000 = 875 * TaxRateDen)
                    => resp[r][1].challenge[1].orderPreview.total = 1359

C2_Witness ==
    \E r \in Slots :
        /\ resp[r] # <<>>
        /\ req[r].header = <<>>
        /\ req[r].body.items = <<ScenarioItems>>
        /\ resp[r][1].status = 402
        /\ resp[r][1].challenge[1].orderPreview.subtotal = 1250
        /\ resp[r][1].challenge[1].orderPreview.total = 1359

\* C3: a request with a catalog item, complete customer and fulfillment
\* fields and a well-formed, current, account-addressed proof of the matching
\* amount is answered, and its answer is 201 with status confirmed and a
\* non-empty orderId.
C3_GoodRequestIsConfirmed ==
    \A r \in Slots :
        (pc[r] = "parsing" /\ GoodRequest(req[r]))
            ~> (Confirmed(r) /\ resp[r][1].order[1].orderId # <<>>)

C3_Witness ==
    \E r \in Slots :
        /\ GoodRequest(req[r])
        /\ Confirmed(r)
        /\ Len(resp[r][1].order[1].orderId) > Len(<<"P", "B", "C", "-">>)

\* C4: once verifyPaymentHeader has returned valid = false for a request,
\* the fulfillment checks and the provisioner are never reached, and the
\* response is 401 with details equal to the verifier's reason.
C4_InvalidProofGets401WithReason ==
    \A r \in Slots :
        (verification[r] # <<>> /\ ~verification[r][1].result.valid) =>
            /\ "fulfillment" \notin reached[r]
            /\ "provision" \notin reached[r]
            /\ resp[r] # <<>> =>
                  /\ resp[r][1].status = 401
                  /\ resp[r][1].details = verification[r][1].result.error
                  /\ resp[r][1].order = <<>>
                  /\ resp[r][1].challenge = <<>>

C4_Witness ==
    \E r \in Slots :
        /\ resp[r] # <<>>
        /\ resp[r][1].status = 401
        /\ resp[r][1].details = ErrExpired
        /\ ~FulfillmentComplete(req[r].body)

\* C5: two orders confirmed by the process have different orderIds.
C5_DistinctOrderIds ==
    \A r1, r2 \in Slots :
        (r1 # r2 /\ Confirmed(r1) /\ Confirmed(r2)) =>
            resp[r1][1].order[1].orderId # resp[r2][1].order[1].orderId

\* The reason is of the decode-failure kind: it has the prefix of line 196.
IsDecodeFailure(error) ==
    /\ Len(error) >= Len(DecodePrefix)
    /\ SubSeq(error, 1, Len(DecodePrefix)) = DecodePrefix

\* C6: a header that is not base64 (it has a character outside the
\* alphabet: one the decoder skips, "=" out of place, or "_") or whose
\* content is not JSON is rejected with the decode-failure reason.
C6_MalformedHeaderIsDecodeFailure ==
    (vout # <<>>
        /\ (vin[1].header.illegal > 0 \/ vin[1].header.stray # "none"
               \/ Base64Decode(vin[1].header).json = "invalid")) =>
        /\ ~vout[1].valid
        /\ IsDecodeFailure(vout[1].error)

\* The proof gets past the checks of lines 112-161: it decodes, has payload,
\* authorization, addresses the verifier takes, a signature and a value that
\* converts.
PassesStructure(t) ==
    /\ t.json = "value" /\ t.payload = "object" /\ t.authorization = "object"
    /\ t.from.t = "string" /\ StartsWith(t.from.s, AddrPrefix)
    /\ t.to.t = "string" /\ StartsWith(t.to.s, AddrPrefix)
    /\ t.signature.t = "string" /\ t.signature.s # <<>>
    /\ ~ValueTruthy(t.value) \/ BigInt(t.value.text) # <<>>

\* C7: past the structural checks, the result is "not yet valid" exactly
\* when validAfter is present and now < validAfter, otherwise "expired"
\* exactly when validBefore is present and now > validBefore, otherwise
\* success.
C7_WindowDecidesExactly ==
    (vout # <<>> /\ PassesStructure(Base64Decode(vin[1].header))) =>
        LET t == Base64Decode(vin[1].header)
            now == vin[1].nowMs \div MsPerSecond
        IN  IF t.validAfter.t # "absent" /\ now < t.validAfter.n
            THEN ~vout[1].valid /\ vout[1].error = ErrNotYetValid
            ELSE IF t.validBefore.t # "absent" /\ now > t.validBefore.n
            THEN ~vout[1].valid /\ vout[1].error = ErrExpired
            ELSE vout[1].valid

\* C8: a proof with payload and authorization whose from or to is absent,
\* not a string or not shaped as an account address (the prefix followed by
\* a fixed-length hexadecimal body) is rejected; when from or to is absent,
\* not a string or without the prefix the reason is the invalid-address one.
C8_MisshapenAddressRejected ==
    (vout # <<>> /\ Base64Decode(vin[1].header).json = "value"
        /\ Base64Decode(vin[1].header).payload = "object"
        /\ Base64Decode(vin[1].header).authorization = "object"
        /\ (~IsAccountAddress(Base64Decode(vin[1].header).from)
              \/ ~IsAccountAddress(Base64Decode(vin[1].header).to))) =>
        /\ ~vout[1].valid
        /\ (\E v \in {Base64Decode(vin[1].header).from, Base64Decode(vin[1].header).to} :
                ~(v.t = "string" /\ StartsWith(v.s, AddrPrefix)))
             => vout[1].error \in {ErrFrom, ErrTo}

\* The request's header with another authorization.value.
WithValue(h, v) == [h EXCEPT !.text.value = v]

\* C9: for a verified request whose proof states an integer amount, every
\* other integer amount gives the same valid flag and the same reason; and a
\* request accepted with an amount outside the tolerance (a warning was
\* logged) and whose fulfillment fields are in order is answered with the
\* confirmed order.
C9_AmountNeverChangesOutcome ==
    \A r \in Slots :
        (verification[r] # <<>>
            /\ Base64Decode(req[r].header[1]).value.t # "absent"
            /\ BigInt(Base64Decode(req[r].header[1]).value.text) # <<>>) =>
            /\ \A v \in IntegerValues :
                  LET other == verifyPaymentHeader(
                                   WithValue(req[r].header[1], v),
                                   calculateOrderTotal(req[r].body.items[1]).totalInCents,
                                   verification[r][1].at)
                  IN  /\ other.valid = verification[r][1].result.valid
                      /\ other.error = verification[r][1].result.error
            /\ (verification[r][1].result.valid /\ verification[r][1].result.warned
                  /\ resp[r] # <<>> /\ FulfillmentError(req[r].body) = <<>>)
                  => Confirmed(r)

C9_Witness ==
    \E r \in Slots :
        /\ Confirmed(r)
        /\ verification[r][1].result.warned
        /\ ~AmountMatches(req[r].header[1].text,
                          calculateOrderTotal(req[r].body.items[1]).totalInCents)

\* C10: when the backend call threw or gave no deposit address, the request
\* (one without a proof header) is answered 500, with no payment challenge in
\* the response: its handler is ready to answer, or has answered, and the
\* answer is that one.
C10_ProvisionFailureGets500 ==
    \A r \in Slots :
        ProvisionFailed(r) =>
            /\ NoPaymentHeader(req[r])
            /\ IF resp[r] = <<>>
               THEN pc[r] = "addressed" /\ ENABLED Challenge(r)
               ELSE /\ pc[r] = "done"
                    /\ resp[r][1].status = 500
                    /\ resp[r][1].challenge = <<>>

C10_Witness ==
    \E r1, r2 \in Slots :
        /\ backend[r1] # <<>> /\ backend[r1][1].outcome = "throws"
        /\ backend[r2] # <<>> /\ backend[r2][1].outcome = "noaddress"
        /\ resp[r1] # <<>> /\ resp[r1][1].status = 500
        /\ resp[r2] # <<>> /\ resp[r2][1].status = 500

\* The context's header decodes to a proof whose destination is a non-empty
\* string.
UsableDestination(h) ==
    IF h = <<>> THEN FALSE
    ELSE /\ ~h[1].empty
         /\ Base64Decode(h[1]).json = "value"
         /\ Base64Decode(h[1]).payload = "object"
         /\ Base64Decode(h[1]).authorization = "object"
         /\ Base64Decode(h[1]).to.t = "string"
         /\ Base64Decode(h[1]).to.s # <<>>

\* C11: a call whose header decodes to a non-empty string destination
\* returns exactly that address without a backend call and without building
\* a client (there is one exactly where getStripe or getPaymentIntentStatus
\* was called with a key set), in demo mode and in configured mode; any
\* other header or none falls through to normal provisioning without an
\* error of its own: the placeholder in demo mode, one backend call
\* otherwise, whose failure is the only way to throw.
C11_HeaderDestinationReturned ==
    fout # <<>> =>
        IF UsableDestination(fin[1].paymentHeader)
        THEN /\ fout[1].state = "returned"
             /\ fout[1].address = Base64Decode(fin[1].paymentHeader[1]).to.s
             /\ fout[1].calls = <<>>
             /\ stripeClient = (~demoMode /\ exported # <<>>)
        ELSE IF demoMode
        THEN /\ fout[1].state = "returned"
             /\ fout[1].address = DEMO_DEPOSIT_ADDRESS
             /\ fout[1].calls = <<>>
        ELSE /\ Len(fout[1].calls) = 1
             /\ fout[1].state = "threw"
                   => fout[1].error \in {ErrBackend, ErrNoDepositAddress}
             /\ fout[1].state = "returned" => fout[1].address = DepositAddress

C11_Witness ==
    /\ fout # <<>>
    /\ demoMode
    /\ UsableDestination(fin[1].paymentHeader)
    /\ Base64Decode(fin[1].paymentHeader[1]).to = AddrNoPrefix
    /\ fout[1].state = "returned"
    /\ fout[1].address = AddrNoPrefix.s

\* C12: in demo mode the backend is never called and the client never
\* built, and a request that reaches the provisioner is ready to be
\* answered, or has been, with the 402 response of a real address in which
\* payTo is the placeholder; in
\* configured mode no payment challenge holds the placeholder, and each one
\* follows a backend call.
C12_DemoModePlaceholder ==
    \A r \in Slots :
        /\ demoMode => (backend[r] = <<>> /\ ~stripeClient)
        /\ (demoMode /\ "provision" \in reached[r]) =>
              IF resp[r] = <<>>
              THEN pc[r] = "addressed" /\ ENABLED Challenge(r)
              ELSE /\ pc[r] = "done"
                   /\ resp[r][1].status = 402
                   /\ resp[r][1].challenge[1].payTo = DEMO_DEPOSIT_ADDRESS
                   /\ resp[r][1] =
                         [ProvisionResponse(calculateOrderTotal(req[r].body.items[1]),
                                            "address")
                             EXCEPT !.challenge[1].payTo = DEMO_DEPOSIT_ADDRESS]
        /\ (~demoMode /\ resp[r] # <<>> /\ resp[r][1].challenge # <<>>) =>
              /\ resp[r][1].challenge[1].payTo # DEMO_DEPOSIT_ADDRESS
              /\ backend[r] # <<>>
              /\ backend[r][Len(backend[r])].outcome = "address"

C12_Witness ==
    \E r \in Slots :
        /\ demoMode
        /\ "provision" \in reached[r]
        /\ resp[r] # <<>>
        /\ resp[r][1].status = 402
        /\ resp[r][1].challenge[1].payTo = DEMO_DEPOSIT_ADDRESS
        /\ resp[r][1].challenge[1].orderPreview.total = 1359

\* The request has one of the input errors of the claim: its body is not
\* JSON, or it has no items list (the body null, or an object without
\* items), an empty items list or a list that names no catalog item.
HasInputDefect(q) ==
    \/ q.body.json = "malformed"
    \/ q.body.json = "null"
    \/ /\ q.body.json = "object"
       /\ IF q.body.items = <<>> THEN TRUE
          ELSE FoundItems(q.body.items[1]) = <<>>

\* C13: a request with such an input error, with or without a proof header,
\* never reaches the provisioner, the backend or the verifier and is
\* answered 400; when its list is not empty and names no catalog item the
\* answer lists the requested ids.
C13_InputErrorsComeFirst ==
    \A r \in Slots :
        (pc[r] # "idle" /\ HasInputDefect(req[r])) =>
            /\ pc[r] \in {"parsing", "done"}
            /\ reached[r] = {}
            /\ verification[r] = <<>>
            /\ backend[r] = <<>>
            /\ pc[r] = "done" =>
                  /\ resp[r][1].status = 400
                  /\ resp[r][1].challenge = <<>>
                  /\ resp[r][1].order = <<>>
                  /\ (req[r].body.json = "object" /\ req[r].body.items # <<>>
                        /\ req[r].body.items[1] # <<>>) =>
                        /\ resp[r][1].error = "No valid items found"
                        /\ resp[r][1].requestedIds = req[r].body.items

\* A customer or fulfillment field the order needs is missing.
MissingFields(body) ==
    \/ ~body.custName
    \/ ~body.custPhone
    \/ body.fulfillment = ""
    \/ body.fulfillment = "pickup" /\ ~body.pickup_time
    \/ body.fulfillment = "delivery" /\ ~body.delivery_address
    \/ body.fulfillment = "delivery" /\ ~body.delivery_window

\* C14 as stated: a request with a missing customer or fulfillment field is
\* answered 402 when it has no proof header, 401 when its proof is not
\* valid, and 400, without an order, only when its proof verified; the field
\* checks are reached only after the verifier returned valid.
C14_MissingFieldsAnsweredByPaymentState ==
    \A r \in Slots :
        (pc[r] = "done" /\ MissingFields(req[r].body)) =>
            /\ "fulfillment" \in reached[r] =>
                  (verification[r] # <<>> /\ verification[r][1].result.valid)
            /\ resp[r][1].order = <<>>
            /\ IF NoPaymentHeader(req[r]) THEN resp[r][1].status = 402
               ELSE IF verification[r] # <<>> /\ verification[r][1].result.valid
               THEN resp[r][1].status = 400
               ELSE resp[r][1].status = 401
            /\ resp[r][1].status = 400 =>
                  (verification[r] # <<>> /\ verification[r][1].result.valid)

\* C14, amended: the field checks are reached only after the verifier
\* returned valid.  A request with a missing customer or fulfillment field
\* whose items are priced (an object body with at least one catalog id) is
\* answered 402 when it has no proof header, or 500 when the address
\* provisioning failed, 401 when its proof is not valid, and the 400 of the
\* field checks, without an order, exactly when its proof verified.  One
\* whose items are not priced is answered by the input checks (400, or 500
\* for the body null) before the payment branch, with or without a header.
C14_FieldsCheckedAfterPayment ==
    \A r \in Slots :
        (pc[r] # "idle" /\ MissingFields(req[r].body)) =>
            /\ "fulfillment" \in reached[r] =>
                  (verification[r] # <<>> /\ verification[r][1].result.valid)
            /\ pc[r] = "done" =>
                  /\ resp[r][1].order = <<>>
                  /\ IF ~HasCatalogItem(req[r])
                     THEN /\ resp[r][1].status \in {400, 500}
                          /\ reached[r] = {}
                          /\ verification[r] = <<>>
                     ELSE IF NoPaymentHeader(req[r])
                     THEN IF ProvisionFailed(r) THEN resp[r][1].status = 500
                          ELSE resp[r][1].status = 402
                     ELSE IF ~verification[r][1].result.valid
                     THEN resp[r][1].status = 401
                     ELSE /\ resp[r][1].status = 400
                          /\ "fulfillment" \in reached[r]

C14_Witness ==
    \E r \in Slots :
        /\ pc[r] = "done"
        /\ HasCatalogItem(req[r])
        /\ ~req[r].body.custPhone
        /\ verification[r] # <<>>
        /\ verification[r][1].result.valid
        /\ resp[r][1].status = 400
        /\ resp[r][1].order = <<>>

\* The ids of the catalog.
CatalogIds == {allItems[i].id : i \in 1..Len(allItems)}

InCatalog(id) == id \in CatalogIds

\* The ids of a sequence of priced lines.
LineIds(items) == [i \in 1..Len(items) |-> items[i].id]

\* How many times id occurs in a sequence of ids.
Occurrences(ids, id) == Cardinality({i \in 1..Len(ids) : ids[i] = id})

\* C15: the ids of the summary's items are the input ids that are in the
\* catalog, in input order and once per occurrence, each line holding the
\* catalog's name and price; an unknown id never appears, and an input
\* without a catalog id gives no item.
C15_ItemsAreKnownSubsequence ==
    fout # <<>> =>
        LET ids == fin[1].itemIds
            items == fout[1].items
        IN  /\ LineIds(items) = SelectSeq(ids, InCatalog)
            /\ \A i \in 1..Len(items) :
                  \E k \in 1..Len(allItems) :
                      allItems[k] = items[i]
            /\ \A id \in IdSamples :
                  Occurrences(LineIds(items), id) =
                      IF id \in CatalogIds THEN Occurrences(ids, id) ELSE 0
            /\ (\A i \in 1..Len(ids) : ids[i] \notin CatalogIds) => items = <<>>

C15_Witness ==
    /\ fout # <<>>
    /\ fin[1].itemIds = <<"chips", "not-a-real-id", "chips">>
    /\ LineIds(fout[1].items) = <<"chips", "chips">>

\* C16: in every summary the returned total is the returned subtotal plus
\* the returned tax (a sum of two-decimal amounts, which rounding to two
\* decimals leaves as it is), and the returned tax is the returned subtotal
\* times the rate, rounded to two decimals.  Amounts are in cents.
C16_TotalIsRoundedSum ==
    fout # <<>> =>
        /\ fout[1].total = fout[1].subtotal + fout[1].tax
        /\ fout[1].tax = MathRound(fout[1].subtotal * fin[1].menuData.rateNum,
                                   fin[1].menuData.rateDen)

\* C17: GET /menu/calculate with an items parameter is answered by the
\* price calculation, with the items, subtotal, tax and total that
\* calculateOrderTotal gives for the same ids, and not by the lookup of a
\* single item.
C17_CalculateRouteAnswers ==
    (fout # <<>> /\ fin[1].path = <<"menu", "calculate">>
        /\ fin[1].itemsParam # <<>> /\ fin[1].itemsParam # <<"">>) =>
        /\ fout[1].handler = "/menu/calculate"
        /\ fout[1].status = 200
        /\ fout[1].summary = <<calculateOrderTotal(TrimmedIds(fin[1].itemsParam[1]))>>

\* What the verifier takes for an address: a string with the prefix.
TakenAsAddress(v) == v.t = "string" /\ StartsWith(v.s, AddrPrefix)

\* A bound that is present, and one that the verifier looks at.
PresentTime(v) == v.t # "absent"

\* The checks of the verifier on a decoded proof, in their order: whether
\* each fails, and its reason.  AddressOk and TimeGiven say what counts as
\* a well-shaped address and as a bound that is present.  The fields of an
\* authorization that is no object read as absent.
VerifierChecks(t, now, AddressOk(_), TimeGiven(_)) ==
    LET inner == t.authorization = "object"
        from == IF inner THEN t.from ELSE Absent
        to == IF inner THEN t.to ELSE Absent
        value == IF inner THEN t.value ELSE NoValue
        validAfter == IF inner THEN t.validAfter ELSE NoTime
        validBefore == IF inner THEN t.validBefore ELSE NoTime
    IN  << [fails |-> t.payload = "absent", reasons |-> {ErrMissingPayload}],
           [fails |-> t.payload = "scalar" \/ t.authorization = "absent",
            reasons |-> {ErrMissingAuthorization}],
           [fails |-> ~AddressOk(from), reasons |-> {ErrFrom}],
           [fails |-> ~AddressOk(to), reasons |-> {ErrTo}],
           [fails |-> ~(t.signature.t = "string" /\ t.signature.s # <<>>),
            reasons |-> {ErrSignature}],
           [fails |-> ValueTruthy(value) /\ BigInt(value.text) = <<>>,
            reasons |-> {ErrDecodeBigInt(value.text)}],
           [fails |-> TimeGiven(validAfter) /\ now < validAfter.n,
            reasons |-> {ErrNotYetValid}],
           [fails |-> TimeGiven(validBefore) /\ now > validBefore.n,
            reasons |-> {ErrExpired}] >>

\* The result is the rejection of the first check that fails, or success.
FirstFailureDecides(checks, result) ==
    LET failing == {i \in 1..Len(checks) : checks[i].fails}
    IN  IF failing = {} THEN result.valid
        ELSE ~result.valid /\ result.error \in checks[Min(failing)].reasons

\* With the checks as the verifier makes them (an address is a string with
\* the prefix, a bound of zero is skipped) the order is the one of C18.
VerifierOrderAsImplemented ==
    (vout # <<>> /\ Base64Decode(vin[1].header).json = "value") =>
        FirstFailureDecides(
            VerifierChecks(Base64Decode(vin[1].header), vin[1].nowMs \div MsPerSecond,
                           TakenAsAddress, TimeTruthy),
            vout[1])

\* C18: the checks are payload, authorization, from address, to address,
\* signature, amount conversion, validAfter, validBefore, an address being
\* well shaped when it is an account address and a bound counting when it
\* is present; the verifier rejects with the reason of the first check that
\* fails and accepts when none fails.
C18_FirstFailingCheckDecides ==
    (vout # <<>> /\ Base64Decode(vin[1].header).json = "value") =>
        FirstFailureDecides(
            VerifierChecks(Base64Decode(vin[1].header), vin[1].nowMs \div MsPerSecond,
                           IsAccountAddress, PresentTime),
            vout[1])

\* The units a proof states, when BigInt reads them as a natural number.
StatedUnits(t) ==
    IF ValueTruthy(t.value) /\ BigInt(t.value.text) # <<>>
          /\ ~BigInt(t.value.text)[1].negative
    THEN <<BigInt(t.value.text)[1].magnitude>> ELSE <<>>

\* C19: when the verifier accepts a proof whose value is a non-negative
\* integer v (a string, or a number other than 0, which reads as absent),
\* the amount it reports is the floor of v / 10000: the natural c for which
\* v is 10000 * c and a remainder below 10000, so that 10000 * c gives c
\* and 13590000 gives 1359; and the amount is outside the tolerance, with a
\* warning logged, exactly when it differs from the expected cents by more
\* than 1.
C19_AmountIsFloorOfUnits ==
    (vout # <<>> /\ vout[1].valid
        /\ StatedUnits(Base64Decode(vin[1].header)) # <<>>) =>
        LET v == StatedUnits(Base64Decode(vin[1].header))[1]
            expected == vin[1].expected
        IN  /\ vout[1].amountCents # <<>>
            /\ ~vout[1].amountCents[1].negative
            /\ BigAdd(BigMulSmall(vout[1].amountCents[1].magnitude, UsdcUnitsPerCent),
                      BigOfInt(BigDivSmall(v, UsdcUnitsPerCent).r)) = v
            /\ ~vout[1].amountCents[1].infinite
            /\ v = BigOfInt(13590000) =>
                  vout[1].amountCents[1].magnitude = BigOfInt(1359)
            /\ vout[1].warned <=>
                  vout[1].amountCents[1].magnitude \notin
                      {BigOfInt(c) : c \in {expected - 1, expected, expected + 1} \cap Nat}

\* C20: every amount sent to the backend for a request is the total of the
\* request's order in cents, also when that total is 0.
C20_BackendAmountIsOrderTotal ==
    \A r \in Slots :
        \A i \in 1..Len(backend[r]) :
            backend[r][i].amount =
                calculateOrderTotal(req[r].body.items[1]).totalInCents

\* C21: every confirmed order has a customer name and phone, and its
\* fulfillment is pickup with a pickup time or delivery with a delivery
\* address and a delivery window.
C21_ConfirmedOrderIsComplete ==
    \A r \in Slots :
        Confirmed(r) =>
            LET order == resp[r][1].order[1]
            IN  /\ order.custName /\ order.custPhone
                /\ \/ order.fulfillment = "pickup" /\ order.pickup_time
                   \/ order.fulfillment = "delivery" /\ order.delivery_address
                                                     /\ order.delivery_window

\* The fulfillment checks as implemented: a confirmed order whose fulfillment
\* is pickup or delivery has the fields that go with it.
FulfillmentFieldsAsImplemented ==
    \A r \in Slots :
        (Confirmed(r) /\ req[r].body.fulfillment \in {"pickup", "delivery"})
            => FulfillmentComplete(req[r].body)

\* Lines 211-356 as one function: the response of the handler to request q
\* when nothing else happens in the process.  demo is the configuration,
\* outcome the way the request's own backend call ended (if one is made),
\* verifiedAt, idAt and createdAt the readings of the clock (164, 321, 344).
PostOrder(q, demo, outcome, verifiedAt, idAt, createdAt) ==
    IF InputError(q) # <<>> THEN InputError(q)[1]
    ELSE LET orderDetails == calculateOrderTotal(q.body.items[1])
         IN  IF NoPaymentHeader(q)
             THEN LET decision == PayToDecision(<<>>, <<orderDetails.totalInCents>>, demo)
                  IN  IF decision.call
                      THEN ProvisionResponse(orderDetails, outcome)
                      ELSE PaymentRequired(orderDetails, decision.address)
             ELSE LET v == verifyPaymentHeader(q.header[1], orderDetails.totalInCents, verifiedAt)
                      missing == FulfillmentError(q.body)
                  IN  IF ~v.valid
                      THEN ErrorResponse(401, "Invalid payment header", v.error)
                      ELSE IF missing # <<>>
                      THEN ErrorResponse(400, missing[1], "")
                      ELSE Created(q.body, orderDetails, v, idAt, createdAt)

\* The readings and the backend answer that belong to the request of slot r.
OwnOutcome(r) ==
    IF backend[r] = <<>> THEN "none" ELSE backend[r][Len(backend[r])].outcome

OwnVerifiedAt(r) == IF verification[r] = <<>> THEN clock ELSE verification[r][1].at

\* The response without what the clock puts into an order: orderId and
\* createdAt.
WithoutIdAndTime(response) ==
    IF response.order = <<>> THEN response
    ELSE [response EXCEPT !.order = << [ @[1] EXCEPT !.orderId = <<>>,
                                                    !.createdAt = 0 ] >>]

\* C22: two requests of the process with the same header and body, the same
\* answer to their backend call and the same reading of the clock at their
\* verification are given the same response, orderId and createdAt set
\* aside, whichever was handled first and whatever the other had been
\* answered; a request whose proof was accepted and whose fields are in
\* order is confirmed without a challenge or a backend call of its own, and
\* whether or not any challenge was issued by the process; a proof that is
\* current and was accepted for one request is accepted for every other
\* request that presents it; and every confirmed request has an order made
\* in its own handling: its orderId is that of an instant at or after its
\* own verification and not after its createdAt.
C22_ResponseIsHistoryIndependent ==
    /\ \A r1, r2 \in Slots :
          (r1 # r2 /\ resp[r1] # <<>> /\ resp[r2] # <<>>
              /\ req[r1] = req[r2]
              /\ OwnOutcome(r1) = OwnOutcome(r2)
              /\ (verification[r1] = <<>>) = (verification[r2] = <<>>)
              /\ (verification[r1] # <<>> =>
                     verification[r1][1].at = verification[r2][1].at))
            => WithoutIdAndTime(resp[r1][1]) = WithoutIdAndTime(resp[r2][1])
    /\ \A r \in Slots :
          (resp[r] # <<>> /\ verification[r] # <<>>
              /\ verification[r][1].result.valid
              /\ FulfillmentComplete(req[r].body))
            => /\ Confirmed(r)
               /\ "provision" \notin reached[r]
               /\ backend[r] = <<>>
    /\ \A r1, r2 \in Slots :
          (r1 # r2 /\ req[r1].header # <<>> /\ req[r1].header = req[r2].header
              /\ AlwaysCurrent(Base64Decode(req[r1].header[1]))
              /\ verification[r1] # <<>> /\ verification[r1][1].result.valid
              /\ verification[r2] # <<>>)
            => verification[r2][1].result.valid
    /\ \A r \in Slots :
          Confirmed(r) =>
              \E idAt \in verification[r][1].at .. resp[r][1].order[1].createdAt :
                  resp[r][1].order[1].orderId = OrderId(idAt)

\* Two requests with the same proof, the second verified after the order of
\* the first was returned, both confirmed with an order of their own, and no
\* challenge was ever issued by the process.
C22_Witness ==
    /\ req[1].header = req[2].header
    /\ req[1].header # <<>>
    /\ Confirmed(1) /\ Confirmed(2)
    /\ resp[1][1].order[1].createdAt < verification[2][1].at
    /\ resp[1][1].order[1] # resp[2][1].order[1]
    /\ resp[1][1].order[1].orderId # resp[2][1].order[1].orderId
    /\ \A r \in Slots : "provision" \notin reached[r] /\ backend[r] = <<>>
    /\ ~stripeClient

\* C23: a request makes at most one backend call, and only when it has no
\* proof header, its items priced to at least one line and the process is
\* not in demo mode; a call that failed is the request's only call and the
\* request goes on to its answer; a request answered 400, 401 or 201 made no call.
C23_BackendCalledAtMostOnce ==
    \A r \in Slots :
        /\ Len(backend[r]) <= 1
        /\ backend[r] # <<>> =>
              /\ NoPaymentHeader(req[r])
              /\ HasCatalogItem(req[r])
              /\ ~demoMode
        /\ ProvisionFailed(r) =>
              (Len(backend[r]) = 1 /\ pc[r] \in {"addressed", "done"})
        /\ (resp[r] # <<>> /\ resp[r][1].status \in {400, 401, 201})
              => backend[r] = <<>>

\* One request's call threw and it was answered 500 after that single call,
\* while a request answered 201 made none.
C23_Witness ==
    \E r1, r2 \in Slots :
        /\ backend[r1] = <<[amount |-> 1359, outcome |-> "throws"]>>
        /\ resp[r1] # <<>> /\ resp[r1][1].status = 500
        /\ Confirmed(r2) /\ backend[r2] = <<>>

\* Some step of the handler of slot r can be taken.
CanStep(r) ==
    ENABLED (RejectInput(r) \/ Provision(r) \/ Challenge(r) \/ Verify(r)
                \/ Unauthorized(r) \/ Fulfill(r))

\* C24: while a request waits on its backend call, the handler of any other
\* request that has been received and not yet answered can take its next
\* step, and a request received by then goes on to its response, or to a
\* backend call of its own, however long the first one waits; and in every
\* interleaving the response of a request, orderId and createdAt set aside,
\* is the one it gets when handled alone.
C24_ConcurrentRequestsDoNotInterfere ==
    /\ [](\A r1, r2 \in Slots :
            (r1 # r2 /\ pc[r1] = "provisioning"
                /\ pc[r2] \in {"parsing", "addressed", "verified"})
                => CanStep(r2))
    /\ [](\A r \in Slots :
            resp[r] # <<>> =>
                WithoutIdAndTime(resp[r][1]) =
                    WithoutIdAndTime(PostOrder(req[r], demoMode, OwnOutcome(r),
                                               OwnVerifiedAt(r), StartMs, StartMs)))
    /\ \A r1, r2 \in Slots :
          (r1 # r2 /\ pc[r1] = "provisioning" /\ pc[r2] = "parsing")
              ~> (resp[r2] # <<>> \/ pc[r2] = "provisioning")

\* A request arrived while another was waiting on its backend call and has
\* its order, and the other is still waiting.
C24_Witness ==
    \E r1, r2 \in Slots :
        /\ pc[r1] = "provisioning"
        /\ backend[r1][1].outcome = "pending"
        /\ arrival[r2]
        /\ Confirmed(r2)

\* Number.prototype.toFixed(2) (order.ts 262), as the cents of the string it
\* gives: the integer n for which n / 100 is nearest the exact value of the
\* double x, the larger one of two.
ToFixed2(x) ==
    BigToInt(BigShiftRight(BigAdd(BigMulSmall(x, 100),
                                  BigShiftLeft(<<1>>, FracBits - 1)), FracBits))

\* Math.round(total * 100) / 100 (line 67) for a total of n cents: the
\* double nearest n / 100, which is what the division of two integers
\* gives.  The summary holds n for it.
Hundredth(n) == DoubleOfDecimal(n, 100)

\* The amounts the handling of the request of slot r shows are those of the
\* summary direct: every amount sent to the backend is its totalInCents
\* (the provisioner's default when that is 0), the expected amount the
\* verifier was given is its totalInCents, the required amount of the
\* challenge reads as its totalInCents, and the preview total of the
\* challenge and the total of the order are its total.
ShowsAmountsOf(r, direct) ==
    /\ \A i \in 1..Len(backend[r]) :
          backend[r][i].amount =
              IF direct.totalInCents # 0 THEN direct.totalInCents
              ELSE DefaultAmountInCents
    /\ verification[r] # <<>> =>
          verification[r][1].expected = direct.totalInCents
    /\ (resp[r] # <<>> /\ resp[r][1].challenge # <<>>) =>
          /\ 100 * resp[r][1].challenge[1].maxAmountRequired.dollars
                + resp[r][1].challenge[1].maxAmountRequired.cents
                = direct.totalInCents
          /\ resp[r][1].challenge[1].orderPreview.total = direct.total
    /\ (resp[r] # <<>> /\ resp[r][1].order # <<>>) =>
          resp[r][1].order[1].total = direct.total

\* Two requests with the same items are shown the same priced lines and the
\* same amounts, in a challenge as in an order.
SameItemsSamePrice ==
    \A r1, r2 \in Slots :
        (resp[r1] # <<>> /\ resp[r2] # <<>>
            /\ req[r1].body.items = req[r2].body.items
            /\ InputError(req[r1]) = <<>> /\ InputError(req[r2]) = <<>>) =>
            \A shown1 \in {resp[r1][1].challenge[k].orderPreview : k \in DOMAIN resp[r1][1].challenge}
                          \cup {[ f \in {"items", "subtotal", "tax", "total"} |->
                                    resp[r1][1].order[k][f] ] : k \in DOMAIN resp[r1][1].order},
               shown2 \in {resp[r2][1].challenge[k].orderPreview : k \in DOMAIN resp[r2][1].challenge}
                          \cup {[ f \in {"items", "subtotal", "tax", "total"} |->
                                    resp[r2][1].order[k][f] ] : k \in DOMAIN resp[r2][1].order} :
                shown1 = shown2

\* C25 as stated: the summary calculateOrderTotal gives for the items of a
\* request has a totalInCents that is 100 times its total, the product being
\* the one of the two numbers; two requests with the same items are priced
\* alike; and the required amount and the preview total of the 402 response,
\* the amount the provisioner is given, the expected amount the verifier is
\* given and the total of the 201 order are all that total.
C25_TotalInCentsIsHundredTimesTotal ==
    /\ SameItemsSamePrice
    /\ \A r \in Slots :
          (pc[r] # "idle" /\ InputError(req[r]) = <<>>) =>
              /\ ShowsAmountsOf(r, calculateOrderTotal(req[r].body.items[1]))
              /\ DoubleMul(Hundredth(calculateOrderTotal(req[r].body.items[1]).total),
                           DoubleOfInt(100))
                    = DoubleOfInt(calculateOrderTotal(req[r].body.items[1]).totalInCents)

\* C25, amended: the totalInCents of the summary is 100 times its total
\* rounded to the nearest integer (Math.round), and it is the cents that
\* toFixed(2) prints for the total; the rest as stated.
C25_OnePricePerItemList ==
    /\ SameItemsSamePrice
    /\ \A r \in Slots :
          (pc[r] # "idle" /\ InputError(req[r]) = <<>>) =>
              /\ ShowsAmountsOf(r, calculateOrderTotal(req[r].body.items[1]))
              /\ DoubleRound(DoubleMul(
                      Hundredth(calculateOrderTotal(req[r].body.items[1]).total),
                      DoubleOfInt(100)))
                    = calculateOrderTotal(req[r].body.items[1]).totalInCents
              /\ ToFixed2(Hundredth(calculateOrderTotal(req[r].body.items[1]).total))
                    = calculateOrderTotal(req[r].body.items[1]).totalInCents

\* The scenario's items in two requests: one is given the challenge for
\* 13.59 after a backend call for 1359 cents, the other paid 13590000 units,
\* was verified without a warning and has an order of 13.59.
C25_Witness ==
    \E r1, r2 \in Slots :
        /\ req[r1].body.items = <<ScenarioItems>>
        /\ req[r2].body.items = <<ScenarioItems>>
        /\ backend[r1] = <<[amount |-> 1359, outcome |-> "address"]>>
        /\ resp[r1] # <<>> /\ resp[r1][1].status = 402
        /\ resp[r1][1].challenge[1].maxAmountRequired = [dollars |-> 13, cents |-> 59]
        /\ resp[r1][1].challenge[1].orderPreview.total = 1359
        /\ Confirmed(r2)
        /\ ~verification[r2][1].result.warned
        /\ verification[r2][1].expected = 1359
        /\ resp[r2][1].order[1].total = 1359

\* C26: a header that decodes to an object with payload, authorization,
\* account addresses in from and to and a signature is never rejected with a
\* decode-failure reason, whatever authorization.value is.
C26_DecodeFailureOnlyOnDecode ==
    (vout # <<>> /\ WellFormedProof(Base64Decode(vin[1].header))) =>
        (vout[1].valid \/ ~IsDecodeFailure(vout[1].error))

====
